---- MODULE Spec2Model ----
(***************************************************************************)
(* pdf2png: the adaptive resolution search run for one page                *)
(* (_convert_page_worker in converter.py) and the parallel page scheduler  *)
(* (PDFConverter._convert_parallel).                                       *)
(*                                                                         *)
(* Sizes are byte counts, resolutions are DPI values, both integers as in  *)
(* the program.  The renderer and the PNG encoder are external: a render   *)
(* call at a resolution yields a size drawn from the page's encoder model, *)
(* the same size every time the same resolution is rendered.               *)
(***************************************************************************)
EXTENDS Integers, Sequences, FiniteSets, TLC

VARIABLES worker, sched

vars == <<worker, sched>>

(***************************************************************************)
(* Program constants.                                                      *)
(***************************************************************************)
MIN_DPI == 72
MAX_DPI == 2400
ABS_FLOOR_DPI == 36
PHASE2_ROUNDS == 3
PHASE3_WIDTH == 5
PHASE4_WIDTH == 10
MAX_POOL == 4

\* error_msg of a successful worker result (Python None)
NoError == "None"

\* no attempt held yet
NoBytes == [dpi |-> 0, size |-> 0]

Max2(a, b) == IF a >= b THEN a ELSE b
Min2(a, b) == IF a <= b THEN a ELSE b

\* max_size_bytes = int(max_size_mb * 1024 * 1024), max_size_mb a whole number
MaxSizeBytes(mb) == mb * 1024 * 1024

(***************************************************************************)
(* Exact integer arithmetic for the floating-point expressions of the      *)
(* search.  Products exceed 32 bits, so they are computed on little-endian *)
(* digit sequences in base 10000.                                          *)
(***************************************************************************)
BigBase == 10000

RECURSIVE ToBig(_)
ToBig(n) == IF n < BigBase THEN <<n>> ELSE <<n % BigBase>> \o ToBig(n \div BigBase)

RECURSIVE BigAdd(_, _, _)
BigAdd(a, b, c) ==
    IF a = <<>> /\ b = <<>>
    THEN (IF c = 0 THEN <<>> ELSE <<c>>)
    ELSE LET x == (IF a = <<>> THEN 0 ELSE Head(a)) + (IF b = <<>> THEN 0 ELSE Head(b)) + c
         IN  <<x % BigBase>> \o BigAdd(IF a = <<>> THEN <<>> ELSE Tail(a),
                                       IF b = <<>> THEN <<>> ELSE Tail(b),
                                       x \div BigBase)

RECURSIVE BigScale(_, _, _)
BigScale(a, k, c) ==
    IF a = <<>>
    THEN (IF c = 0 THEN <<>> ELSE <<c>>)
    ELSE LET x == Head(a) * k + c
         IN  <<x % BigBase>> \o BigScale(Tail(a), k, x \div BigBase)

RECURSIVE BigMul(_, _)
BigMul(a, b) ==
    IF b = <<>> THEN <<>>
    ELSE BigAdd(BigScale(a, Head(b), 0), <<0>> \o BigMul(a, Tail(b)), 0)

\* -1, 0, 1 as a < b, a = b, a > b
RECURSIVE BigCmp(_, _)
BigCmp(a, b) ==
    IF a = <<>> /\ b = <<>> THEN 0
    ELSE LET ha == IF a = <<>> THEN 0 ELSE Head(a)
             hb == IF b = <<>> THEN 0 ELSE Head(b)
             t  == BigCmp(IF a = <<>> THEN <<>> ELSE Tail(a),
                          IF b = <<>> THEN <<>> ELSE Tail(b))
         IN  IF t # 0 THEN t ELSE IF ha < hb THEN -1 ELSE IF ha > hb THEN 1 ELSE 0

\* safety after k multiplications by 0.95, as the fraction 19^k / 20^k
RECURSIVE Pow(_, _)
Pow(b, k) == IF k = 0 THEN 1 ELSE b * Pow(b, k - 1)

SafetyNum(k) == Pow(19, k)
SafetyDen(k) == Pow(20, k)

\* n <= dpi * sqrt(budget / size) * safety, squared and cross-multiplied
ScaledLeq(n, dpi, budget, size, k) ==
    LET l == ToBig(n * SafetyDen(k))
        r == ToBig(dpi * SafetyNum(k))
    IN  BigCmp(BigMul(BigMul(l, l), ToBig(size)),
               BigMul(BigMul(r, r), ToBig(budget))) <= 0

\* the largest n in lo..hi with ScaledLeq (lo has it)
RECURSIVE ScaledSearch(_, _, _, _, _, _)
ScaledSearch(lo, hi, dpi, budget, size, k) ==
    IF lo >= hi THEN lo
    ELSE LET mid == (lo + hi + 1) \div 2
         IN  IF ScaledLeq(mid, dpi, budget, size, k)
             THEN ScaledSearch(mid, hi, dpi, budget, size, k)
             ELSE ScaledSearch(lo, mid - 1, dpi, budget, size, k)

\* int(current_dpi * (ratio ** 0.5) * safety), ratio = max_size_bytes / actual_size
BackoffDpi(dpi, budget, size, k) == ScaledSearch(0, 2 * dpi, dpi, budget, size, k)

\* The resolutions d up to MAX_DPI where the double product d * 1.15 rounds
\* to just below the whole number 23d/20 (1.15 is stored slightly low).
Upward115RoundsLow ==
    {100, 180, 200, 220, 340, 360, 380, 400, 420, 440, 660, 680, 700, 720,
     740, 760, 780, 800, 820, 840, 860, 880, 1300, 1320, 1340, 1360, 1380,
     1400, 1420, 1440, 1460, 1480, 1500, 1520, 1540, 1560, 1580, 1600, 1620,
     1640, 1660, 1680, 1700, 1720, 1740, 1760, 1780}

\* int(current_dpi * 1.15)
UpwardDpi(dpi) == (23 * dpi) \div 20 - (IF dpi \in Upward115RoundsLow THEN 1 ELSE 0)

\* int(emergency_dpi * 0.8)
EmergencyDpi(dpi) == (4 * dpi) \div 5

\* actual_size <= max_size_bytes * 0.90
Conservative(size, budget) == 10 * size <= 9 * budget

(***************************************************************************)
(* The page's renderer and encoder.  An encoder model e is a record        *)
(*   kind   "quad": size = num * dpi^2 / den bytes, rounded down           *)
(*          "over": every size is 3 * budget (always oversized)            *)
(*          "free": any size of FreeSizes at any resolution                *)
(*          "mono": as "free", but sizes never decrease as the resolution  *)
(*                  grows, size(min_dpi) <= budget < size(max_dpi)         *)
(*   raises "never", "always" or "sometimes": whether a render call raises *)
(*   msg    the message of the exception it raises                         *)
(* For the sizes these models produce, dpi * sqrt(budget/size) * safety is *)
(* never a whole number and the double-precision result of the program     *)
(* truncates to BackoffDpi.                                                *)
(***************************************************************************)
QuadSize(num, den, dpi) ==
    LET sq == dpi * dpi
    IN  num * (sq \div den) + (num * (sq % den)) \div den

FreeSizes(budget) == {budget \div 2, budget, budget + 1, 3 * budget}

\* the sizes a monotone encoder can give at dpi, given the sizes seen so far
MonoSizes(w, dpi) ==
    {s \in FreeSizes(w.max_size_bytes) :
        /\ \A d \in DOMAIN w.seen :
              /\ (d < dpi => w.seen[d] <= s)
              /\ (d > dpi => w.seen[d] >= s)
        /\ (dpi <= w.min_dpi => s <= w.max_size_bytes)
        /\ (dpi >= w.max_dpi => s > w.max_size_bytes)}

\* len(png_bytes) of render_to_memory(dpi): deterministic per resolution
RenderSizes(w, dpi) ==
    IF dpi \in DOMAIN w.seen THEN {w.seen[dpi]}
    ELSE CASE w.enc.kind = "quad" -> {QuadSize(w.enc.num, w.enc.den, dpi)}
           [] w.enc.kind = "over" -> {3 * w.max_size_bytes}
           [] w.enc.kind = "mono" -> MonoSizes(w, dpi)
           [] OTHER               -> FreeSizes(w.max_size_bytes)

Remember(seen, dpi, s) ==
    [d \in DOMAIN seen \cup {dpi} |-> IF d = dpi THEN s ELSE seen[d]]

\* the worker after render_to_memory(dpi) returned s bytes
Rendered(w, dpi, s) ==
    [w EXCEPT !.calls = Append(@, dpi), !.seen = Remember(@, dpi, s)]

(***************************************************************************)
(* _convert_page_worker.  pc is the next render call; the control between  *)
(* two render calls is part of the step that makes the first.              *)
(***************************************************************************)
RenderPoints ==
    {"start", "phase2", "phase3", "phase3_min", "phase4", "phase5_min", "phase5_emergency"}

\* save_bytes(result_bytes); return (page_num, output_path, current_dpi, None)
SaveAndReturn(w) ==
    [w EXCEPT !.written = Append(@, w.result_bytes),
              !.ret = [dpi |-> w.current_dpi, error |-> NoError],
              !.pc = "done"]

\* Phase5Loop without the emergency loop
Phase5LoopSkipped(w) == SaveAndReturn(w)

\* while final_size > max_size_bytes and emergency_dpi > 36
Phase5Loop(w) ==
    IF w.final_size > w.max_size_bytes /\ w.emergency_dpi > ABS_FLOOR_DPI
    THEN [w EXCEPT !.pc = "phase5_emergency"]
    ELSE SaveAndReturn(w)

\* final_size = len(result_bytes); if final_size > max_size_bytes
Phase5Entry(w) ==
    LET v == [w EXCEPT !.final_size = w.result_bytes.size]
    IN  IF v.final_size > v.max_size_bytes
        THEN [v EXCEPT !.pc = "phase5_min"]
        ELSE SaveAndReturn(v)

\* Phase4Loop that leaves current_dpi at the resolution step 4 started from
Phase4LoopKeepsDpi(w) ==
    IF w.high_dpi - w.low_dpi > PHASE4_WIDTH
    THEN [w EXCEPT !.pc = "phase4"]
    ELSE Phase5Entry([w EXCEPT !.result_bytes = w.best_bytes])

\* while high_dpi - low_dpi > 10, then result_bytes = best_bytes
Phase4Loop(w) ==
    IF w.high_dpi - w.low_dpi > PHASE4_WIDTH
    THEN [w EXCEPT !.pc = "phase4"]
    ELSE Phase5Entry([w EXCEPT !.result_bytes = w.best_bytes,
                               !.current_dpi = w.best_dpi])

\* Phase4Entry whose upper bound is max_dpi, without the 15% ceiling
Phase4EntryNoCeiling(w) ==
    IF Conservative(w.actual_size, w.max_size_bytes) /\ w.current_dpi < w.max_dpi
    THEN Phase4Loop([w EXCEPT !.best_bytes = w.result_bytes,
                              !.best_dpi = w.current_dpi,
                              !.low_dpi = w.current_dpi,
                              !.high_dpi = w.max_dpi,
                              !.phase4_from = w.current_dpi])
    ELSE Phase5Entry(w)

\* Phase4Entry whose upper bound is not cut at max_dpi
Phase4EntryNoMax(w) ==
    IF Conservative(w.actual_size, w.max_size_bytes) /\ w.current_dpi < w.max_dpi
    THEN Phase4Loop([w EXCEPT !.best_bytes = w.result_bytes,
                              !.best_dpi = w.current_dpi,
                              !.low_dpi = w.current_dpi,
                              !.high_dpi = UpwardDpi(w.current_dpi),
                              !.phase4_from = w.current_dpi])
    ELSE Phase5Entry(w)

\* Phase4Entry that never tries the upward approximation
Phase4EntrySkipped(w) == Phase5Entry(w)

\* if actual_size <= max_size_bytes * 0.90 and current_dpi < max_dpi
Phase4Entry(w) ==
    IF Conservative(w.actual_size, w.max_size_bytes) /\ w.current_dpi < w.max_dpi
    THEN Phase4Loop([w EXCEPT !.best_bytes = w.result_bytes,
                              !.best_dpi = w.current_dpi,
                              !.low_dpi = w.current_dpi,
                              !.high_dpi = Min2(UpwardDpi(w.current_dpi), w.max_dpi),
                              !.phase4_from = w.current_dpi])
    ELSE Phase5Entry(w)

\* while high_dpi - low_dpi > 5, then if actual_size > max_size_bytes
Phase3Loop(w) ==
    IF w.high_dpi - w.low_dpi > PHASE3_WIDTH
    THEN [w EXCEPT !.pc = "phase3"]
    ELSE IF w.actual_size > w.max_size_bytes
         THEN [w EXCEPT !.pc = "phase3_min"]
         ELSE Phase4Entry(w)

\* if actual_size > max_size_bytes and current_dpi > min_dpi
Phase3Entry(w) ==
    IF w.actual_size > w.max_size_bytes /\ w.current_dpi > w.min_dpi
    THEN Phase3Loop([w EXCEPT !.low_dpi = w.min_dpi, !.high_dpi = w.current_dpi])
    ELSE Phase4Entry(w)

\* NextDpi without "current_dpi = max(min_dpi, current_dpi)" in step 2
NextDpiUnclamped(w) ==
    CASE w.pc = "start"            -> w.max_dpi
      [] w.pc = "phase2"           ->
            BackoffDpi(w.current_dpi, w.max_size_bytes, w.actual_size, w.safety)
      [] w.pc \in {"phase3", "phase4"} -> (w.low_dpi + w.high_dpi) \div 2
      [] w.pc \in {"phase3_min", "phase5_min"} -> w.min_dpi
      [] w.pc = "phase5_emergency" -> EmergencyDpi(w.emergency_dpi)
      [] OTHER                     -> 0

\* the resolution of the render call the worker is about to make
NextDpi(w) ==
    CASE w.pc = "start"            -> w.max_dpi
      [] w.pc = "phase2"           ->
            Max2(w.min_dpi,
                 BackoffDpi(w.current_dpi, w.max_size_bytes, w.actual_size, w.safety))
      [] w.pc \in {"phase3", "phase4"} -> (w.low_dpi + w.high_dpi) \div 2
      [] w.pc \in {"phase3_min", "phase5_min"} -> w.min_dpi
      [] w.pc = "phase5_emergency" -> EmergencyDpi(w.emergency_dpi)
      [] OTHER                     -> 0

\* Phase1Step comparing with < instead of <=
Phase1StepStrict(w, s) ==
    LET v == [Rendered(w, w.max_dpi, s) EXCEPT
                 !.result_bytes = [dpi |-> w.max_dpi, size |-> s],
                 !.actual_size = s]
    IN  IF s < w.max_size_bytes
        THEN [v EXCEPT !.written = Append(@, v.result_bytes),
                       !.ret = [dpi |-> w.max_dpi, error |-> NoError],
                       !.pc = "done"]
        ELSE [v EXCEPT !.current_dpi = w.max_dpi, !.safety = 1, !.round = 0,
                       !.pc = "phase2"]

\* Phase1Step that always goes on to step 2
Phase1StepNoAccept(w, s) ==
    [Rendered(w, w.max_dpi, s) EXCEPT
        !.result_bytes = [dpi |-> w.max_dpi, size |-> s],
        !.actual_size = s,
        !.current_dpi = w.max_dpi, !.safety = 1, !.round = 0,
        !.pc = "phase2"]

\* step 1: render at max_dpi; use it if it does not exceed the limit
Phase1Step(w, s) ==
    LET v == [Rendered(w, w.max_dpi, s) EXCEPT
                 !.result_bytes = [dpi |-> w.max_dpi, size |-> s],
                 !.actual_size = s]
    IN  IF s <= w.max_size_bytes
        THEN [v EXCEPT !.written = Append(@, v.result_bytes),
                       !.ret = [dpi |-> w.max_dpi, error |-> NoError],
                       !.pc = "done"]
        ELSE [v EXCEPT !.current_dpi = w.max_dpi, !.safety = 1, !.round = 0,
                       !.pc = "phase2"]

\* QualityFirstStep that applies the size limit
QualityFirstBudgeted(w, s) == Phase1Step(w, s)

\* quality_first: one render at max_dpi, saved whatever its size
QualityFirstStep(w, s) ==
    LET v == Rendered(w, w.max_dpi, s)
    IN  [v EXCEPT !.written = Append(@, [dpi |-> w.max_dpi, size |-> s]),
                  !.ret = [dpi |-> w.max_dpi, error |-> NoError],
                  !.pc = "done"]

\* step 2: one round of for _ in range(3)
Phase2Step(w, s) ==
    LET dpi == NextDpi(w)
        v == [Rendered(w, dpi, s) EXCEPT
                 !.current_dpi = dpi,
                 !.result_bytes = [dpi |-> dpi, size |-> s],
                 !.actual_size = s,
                 !.round = w.round + 1]
    IN  IF s <= w.max_size_bytes
        THEN Phase3Entry(v)
        ELSE LET u == [v EXCEPT !.safety = w.safety + 1]
             IN  IF u.round < PHASE2_ROUNDS THEN u ELSE Phase3Entry(u)

\* Phase3Step that takes every midpoint as the new lower bound
Phase3StepAcceptsOver(w, s) ==
    LET mid == NextDpi(w)
        v == Rendered(w, mid, s)
    IN  Phase3Loop([v EXCEPT !.low_dpi = mid,
                             !.result_bytes = [dpi |-> mid, size |-> s],
                             !.current_dpi = mid,
                             !.actual_size = s])

\* Phase3Step that forgets to raise low_dpi to an accepted midpoint
Phase3StepNoNarrow(w, s) ==
    LET mid == NextDpi(w)
        v == Rendered(w, mid, s)
    IN  IF s <= w.max_size_bytes
        THEN Phase3Loop([v EXCEPT !.result_bytes = [dpi |-> mid, size |-> s],
                                  !.current_dpi = mid,
                                  !.actual_size = s])
        ELSE Phase3Loop([v EXCEPT !.high_dpi = mid])

\* step 3: one bisection step between min_dpi and current_dpi
Phase3Step(w, s) ==
    LET mid == NextDpi(w)
        v == Rendered(w, mid, s)
    IN  IF s <= w.max_size_bytes
        THEN Phase3Loop([v EXCEPT !.low_dpi = mid,
                                  !.result_bytes = [dpi |-> mid, size |-> s],
                                  !.current_dpi = mid,
                                  !.actual_size = s])
        ELSE Phase3Loop([v EXCEPT !.high_dpi = mid])

\* step 3, after the bisection: still over the limit, use min_dpi
Phase3MinStep(w, s) ==
    Phase4Entry([Rendered(w, w.min_dpi, s) EXCEPT
                    !.result_bytes = [dpi |-> w.min_dpi, size |-> s],
                    !.current_dpi = w.min_dpi,
                    !.actual_size = s])

\* Phase4Step that accepts the midpoint without measuring it
Phase4StepUnchecked(w, s) ==
    LET mid == NextDpi(w)
    IN  Phase4Loop([Rendered(w, mid, s) EXCEPT
                       !.low_dpi = mid,
                       !.best_bytes = [dpi |-> mid, size |-> s],
                       !.best_dpi = mid])

\* step 4: one upward bisection step
Phase4Step(w, s) ==
    LET mid == NextDpi(w)
        v == Rendered(w, mid, s)
    IN  IF s <= w.max_size_bytes
        THEN Phase4Loop([v EXCEPT !.low_dpi = mid,
                                  !.best_bytes = [dpi |-> mid, size |-> s],
                                  !.best_dpi = mid])
        ELSE Phase4Loop([v EXCEPT !.high_dpi = mid])

\* step 5: the final result is over the limit, force min_dpi
Phase5MinStep(w, s) ==
    Phase5Loop([Rendered(w, w.min_dpi, s) EXCEPT
                   !.result_bytes = [dpi |-> w.min_dpi, size |-> s],
                   !.current_dpi = w.min_dpi,
                   !.final_size = s,
                   !.emergency_dpi = w.min_dpi,
                   !.phase5 = TRUE])

\* step 5: one round of the emergency loop
Phase5EmergencyStep(w, s) ==
    LET dpi == NextDpi(w)
    IN  Phase5Loop([Rendered(w, dpi, s) EXCEPT
                       !.emergency_dpi = dpi,
                       !.result_bytes = [dpi |-> dpi, size |-> s],
                       !.final_size = s,
                       !.current_dpi = dpi])

\* RaiseStep that saves the attempt held when the exception comes
RaiseStepSavesHeld(w) ==
    [w EXCEPT !.calls = Append(@, NextDpi(w)),
              !.written = IF w.result_bytes # NoBytes
                          THEN Append(@, w.result_bytes) ELSE @,
              !.ret = [dpi |-> 0, error |-> w.enc.msg],
              !.pc = "done"]

\* except Exception as e: return (page_num, output_path, 0, str(e))
RaiseStep(w) ==
    [w EXCEPT !.calls = Append(@, NextDpi(w)),
              !.ret = [dpi |-> 0, error |-> w.enc.msg],
              !.pc = "done"]

\* the worker's state when it is handed its task
NewWorker(prm, enc) ==
    [pc |-> "start", enc |-> enc, seen |-> << >>,
     quality_first |-> prm.quality_first,
     min_dpi |-> prm.min_dpi, max_dpi |-> prm.max_dpi,
     max_size_bytes |-> MaxSizeBytes(prm.max_size_mb),
     current_dpi |-> 0, safety |-> 0, round |-> 0, actual_size |-> 0,
     result_bytes |-> NoBytes, low_dpi |-> 0, high_dpi |-> 0,
     best_bytes |-> NoBytes, best_dpi |-> 0,
     final_size |-> 0, emergency_dpi |-> 0,
     phase4_from |-> 0, phase5 |-> FALSE,
     calls |-> << >>, written |-> << >>,
     ret |-> [dpi |-> 0, error |-> NoError]]

(***************************************************************************)
(* The search of the sequential path, _convert_page: _render_quality_first *)
(* and _render_with_size_limit (converter.py 506-733).  It is written a    *)
(* second time in the program, and so it is here.  It keeps its variables  *)
(* in a record of the same shape as the pool worker's.                     *)
(***************************************************************************)
\* lines 723-733: open(output_path, 'wb').write(result_bytes);
\* return (output_path, current_dpi)
SeqSaveAndReturn(w) ==
    [w EXCEPT !.written = Append(@, w.result_bytes),
              !.ret = [dpi |-> w.current_dpi, error |-> NoError],
              !.pc = "done"]

\* line 717: while final_size > max_size_bytes and emergency_dpi > 36
SeqPhase5Loop(w) ==
    IF w.final_size > w.max_size_bytes /\ w.emergency_dpi > ABS_FLOOR_DPI
    THEN [w EXCEPT !.pc = "phase5_emergency"]
    ELSE SeqSaveAndReturn(w)

\* lines 705-706: final_size = len(result_bytes); if final_size > max_size_bytes
SeqPhase5Entry(w) ==
    LET v == [w EXCEPT !.final_size = w.result_bytes.size]
    IN  IF v.final_size > v.max_size_bytes
        THEN [v EXCEPT !.pc = "phase5_min"]
        ELSE SeqSaveAndReturn(v)

\* line 688: while high_dpi - low_dpi > 10; lines 700-702 after the loop
SeqPhase4Loop(w) ==
    IF w.high_dpi - w.low_dpi > PHASE4_WIDTH
    THEN [w EXCEPT !.pc = "phase4"]
    ELSE SeqPhase5Entry([w EXCEPT !.result_bytes = w.best_bytes,
                               !.current_dpi = w.best_dpi])

\* lines 677-686: if actual_size <= max_size_bytes * 0.90 and
\* current_dpi < max_dpi
SeqPhase4Entry(w) ==
    IF Conservative(w.actual_size, w.max_size_bytes) /\ w.current_dpi < w.max_dpi
    THEN SeqPhase4Loop([w EXCEPT !.best_bytes = w.result_bytes,
                              !.best_dpi = w.current_dpi,
                              !.low_dpi = w.current_dpi,
                              !.high_dpi = Min2(UpwardDpi(w.current_dpi), w.max_dpi),
                              !.phase4_from = w.current_dpi])
    ELSE SeqPhase5Entry(w)

\* line 657: while high_dpi - low_dpi > 5; line 671 after the loop
SeqPhase3Loop(w) ==
    IF w.high_dpi - w.low_dpi > PHASE3_WIDTH
    THEN [w EXCEPT !.pc = "phase3"]
    ELSE IF w.actual_size > w.max_size_bytes
         THEN [w EXCEPT !.pc = "phase3_min"]
         ELSE SeqPhase4Entry(w)

\* lines 650-655: if actual_size > max_size_bytes and current_dpi > min_dpi
SeqPhase3Entry(w) ==
    IF w.actual_size > w.max_size_bytes /\ w.current_dpi > w.min_dpi
    THEN SeqPhase3Loop([w EXCEPT !.low_dpi = w.min_dpi, !.high_dpi = w.current_dpi])
    ELSE SeqPhase4Entry(w)

\* the resolution of the render call the sequential search is about to make
\* (lines 552, 615, 636-637, 658, 672, 689, 711, 718)
SeqNextDpi(w) ==
    CASE w.pc = "start"            -> w.max_dpi
      [] w.pc = "phase2"           ->
            Max2(w.min_dpi,
                 BackoffDpi(w.current_dpi, w.max_size_bytes, w.actual_size, w.safety))
      [] w.pc \in {"phase3", "phase4"} -> (w.low_dpi + w.high_dpi) \div 2
      [] w.pc \in {"phase3_min", "phase5_min"} -> w.min_dpi
      [] w.pc = "phase5_emergency" -> EmergencyDpi(w.emergency_dpi)
      [] OTHER                     -> 0

\* lines 611-631: render at max_dpi = dpi_levels[0]; write and return it if
\* it does not exceed the limit
SeqPhase1Step(w, s) ==
    LET v == [Rendered(w, w.max_dpi, s) EXCEPT
                 !.result_bytes = [dpi |-> w.max_dpi, size |-> s],
                 !.actual_size = s]
    IN  IF s <= w.max_size_bytes
        THEN [v EXCEPT !.written = Append(@, v.result_bytes),
                       !.ret = [dpi |-> w.max_dpi, error |-> NoError],
                       !.pc = "done"]
        ELSE [v EXCEPT !.current_dpi = w.max_dpi, !.safety = 1, !.round = 0,
                       !.pc = "phase2"]

\* _render_quality_first: one render at dpi_levels[0], written by
\* _compress_and_save_png whatever its size
SeqQualityFirstStep(w, s) ==
    LET v == Rendered(w, w.max_dpi, s)
    IN  [v EXCEPT !.written = Append(@, [dpi |-> w.max_dpi, size |-> s]),
                  !.ret = [dpi |-> w.max_dpi, error |-> NoError],
                  !.pc = "done"]

\* SeqPhase2Step without "safety *= 0.95"
SeqPhase2StepFixedSafety(w, s) ==
    LET dpi == SeqNextDpi(w)
        v == [Rendered(w, dpi, s) EXCEPT
                 !.current_dpi = dpi,
                 !.result_bytes = [dpi |-> dpi, size |-> s],
                 !.actual_size = s,
                 !.round = w.round + 1]
    IN  IF s <= w.max_size_bytes
        THEN SeqPhase3Entry(v)
        ELSE IF v.round < PHASE2_ROUNDS THEN v ELSE SeqPhase3Entry(v)

\* lines 634-647: one round of for _ in range(3)
SeqPhase2Step(w, s) ==
    LET dpi == SeqNextDpi(w)
        v == [Rendered(w, dpi, s) EXCEPT
                 !.current_dpi = dpi,
                 !.result_bytes = [dpi |-> dpi, size |-> s],
                 !.actual_size = s,
                 !.round = w.round + 1]
    IN  IF s <= w.max_size_bytes
        THEN SeqPhase3Entry(v)
        ELSE LET u == [v EXCEPT !.safety = w.safety + 1]
             IN  IF u.round < PHASE2_ROUNDS THEN u ELSE SeqPhase3Entry(u)

\* lines 658-668: one bisection step between min_dpi and current_dpi
SeqPhase3Step(w, s) ==
    LET mid == SeqNextDpi(w)
        v == Rendered(w, mid, s)
    IN  IF s <= w.max_size_bytes
        THEN SeqPhase3Loop([v EXCEPT !.low_dpi = mid,
                                  !.result_bytes = [dpi |-> mid, size |-> s],
                                  !.current_dpi = mid,
                                  !.actual_size = s])
        ELSE SeqPhase3Loop([v EXCEPT !.high_dpi = mid])

\* lines 671-674: still over the limit after the bisection, use min_dpi
SeqPhase3MinStep(w, s) ==
    SeqPhase4Entry([Rendered(w, w.min_dpi, s) EXCEPT
                    !.result_bytes = [dpi |-> w.min_dpi, size |-> s],
                    !.current_dpi = w.min_dpi,
                    !.actual_size = s])

\* lines 689-698: one upward bisection step
SeqPhase4Step(w, s) ==
    LET mid == SeqNextDpi(w)
        v == Rendered(w, mid, s)
    IN  IF s <= w.max_size_bytes
        THEN SeqPhase4Loop([v EXCEPT !.low_dpi = mid,
                                  !.best_bytes = [dpi |-> mid, size |-> s],
                                  !.best_dpi = mid])
        ELSE SeqPhase4Loop([v EXCEPT !.high_dpi = mid])

\* lines 710-716: the final result is over the limit, force min_dpi
SeqPhase5MinStep(w, s) ==
    SeqPhase5Loop([Rendered(w, w.min_dpi, s) EXCEPT
                   !.result_bytes = [dpi |-> w.min_dpi, size |-> s],
                   !.current_dpi = w.min_dpi,
                   !.final_size = s,
                   !.emergency_dpi = w.min_dpi,
                   !.phase5 = TRUE])

\* lines 718-721: one round of the emergency loop
SeqPhase5EmergencyStep(w, s) ==
    LET dpi == SeqNextDpi(w)
    IN  SeqPhase5Loop([Rendered(w, dpi, s) EXCEPT
                       !.emergency_dpi = dpi,
                       !.result_bytes = [dpi |-> dpi, size |-> s],
                       !.final_size = s,
                       !.current_dpi = dpi])

\* a render call raises: _render_with_size_limit and _render_quality_first
\* catch nothing, the exception leaves _convert_page and nothing is written
SeqRaiseStep(w) ==
    [w EXCEPT !.calls = Append(@, SeqNextDpi(w)),
              !.ret = [dpi |-> 0, error |-> w.enc.msg],
              !.pc = "done"]

\* every step the sequential search can take from w
SeqAdvance(w, s) ==
    CASE w.pc = "start" /\ w.quality_first -> SeqQualityFirstStep(w, s)
      [] w.pc = "start" /\ ~w.quality_first -> SeqPhase1Step(w, s)
      [] w.pc = "phase2"           -> SeqPhase2Step(w, s)
      [] w.pc = "phase3"           -> SeqPhase3Step(w, s)
      [] w.pc = "phase3_min"       -> SeqPhase3MinStep(w, s)
      [] w.pc = "phase4"           -> SeqPhase4Step(w, s)
      [] w.pc = "phase5_min"       -> SeqPhase5MinStep(w, s)
      [] w.pc = "phase5_emergency" -> SeqPhase5EmergencyStep(w, s)

SeqSuccessors(w) ==
    (IF w.enc.raises # "always"
     THEN {SeqAdvance(w, s) : s \in RenderSizes(w, SeqNextDpi(w))} ELSE {})
    \cup (IF w.enc.raises # "never" THEN {SeqRaiseStep(w)} ELSE {})

(***************************************************************************)
(* Parameters and encoder models the search is run on.                     *)
(***************************************************************************)
\* ValidParams that does not compare min_dpi with max_dpi
ValidParamsNoOrder(prm) ==
    /\ prm.max_size_mb > 0
    /\ MIN_DPI <= prm.min_dpi /\ prm.min_dpi <= MAX_DPI
    /\ MIN_DPI <= prm.max_dpi /\ prm.max_dpi <= MAX_DPI

\* validate_dpi_range and the max_size_mb check of convert()
ValidParams(prm) ==
    /\ prm.max_size_mb > 0
    /\ MIN_DPI <= prm.min_dpi /\ prm.min_dpi <= MAX_DPI
    /\ MIN_DPI <= prm.max_dpi /\ prm.max_dpi <= MAX_DPI
    /\ prm.min_dpi <= prm.max_dpi

Params(lo, hi, mb, qf) ==
    [min_dpi |-> lo, max_dpi |-> hi, max_size_mb |-> mb, quality_first |-> qf]

Encoder(kind, num, den, raises, msg) ==
    [kind |-> kind, num |-> num, den |-> den, raises |-> raises, msg |-> msg]

\* a page that is 8 MB at 600 DPI, size proportional to dpi^2
Quad8At600 == Encoder("quad", 131072, 5625, "never", "")
\* a page that is 1 MB at 300 DPI
Quad1At300 == Encoder("quad", 65536, 5625, "never", "")
\* a page that is 5.5 MB at 600 DPI
Quad5p5At600 == Encoder("quad", 90112, 5625, "never", "")

\* how many DPI ranges the unconstrained encoders are tried on
NumRanges == 3

DpiRange(i) ==
    CASE i = 1 -> <<150, 600>>
      [] i = 2 -> <<72, 160>>
      [] i = 3 -> <<300, 300>>
      [] i = 4 -> <<100, 230>>
      [] OTHER -> <<72 + i, 150 + 20 * i>>

SearchConfigs ==
    LET quads == {[prm |-> Params(150, 600, 5, qf), enc |-> [e EXCEPT !.raises = r, !.msg = "corrupt page"]] :
                     qf \in BOOLEAN, e \in {Quad8At600, Quad1At300, Quad5p5At600},
                     r \in {"never", "sometimes"}}
        frees == {[prm |-> Params(DpiRange(t[1])[1], DpiRange(t[1])[2], t[2], t[3]),
                   enc |-> Encoder("free", 0, 1, "never", "")] :
                     t \in {u \in (1..NumRanges) \X {1, 5} \X BOOLEAN : u[2] = 5 \/ u[3]}}
        monos == {[prm |-> Params(DpiRange(i)[1], DpiRange(i)[2], 5, FALSE),
                   enc |-> Encoder("mono", 0, 1, "never", "")] :
                     i \in {j \in 1..NumRanges : DpiRange(j)[1] < DpiRange(j)[2]}}
        overs == {[prm |-> Params(lo, hi, 5, FALSE),
                   enc |-> Encoder("over", 0, 1, "never", "")] :
                     lo \in MIN_DPI..MAX_DPI, hi \in {MAX_DPI}}
        fails == {[prm |-> Params(150, 600, 5, qf),
                   enc |-> Encoder("free", 0, 1, "always", m)] :
                     qf \in BOOLEAN, m \in {"", "cannot open page"}}
        breaks == {[prm |-> Params(150, 600, 5, FALSE),
                    enc |-> Encoder("over", 0, 1, "sometimes", "out of memory")]}
    IN  {c \in quads \cup frees \cup monos \cup overs \cup fails \cup breaks :
            ValidParams(c.prm)}

(***************************************************************************)
(* The worker process of one page.  In a parallel run a worker steps only  *)
(* while the pool runs its task.                                           *)
(***************************************************************************)
Pages == DOMAIN worker

Running(p) ==
    /\ worker[p].pc \in RenderPoints
    /\ sched.mode = "parallel" => p \in sched.started

\* the render call about to be made returns
Returns(p) == Running(p) /\ worker[p].enc.raises # "always"

Step(p, v) == worker' = [worker EXCEPT ![p] = v] /\ UNCHANGED sched

QualityFirst(p) ==
    /\ Returns(p) /\ worker[p].pc = "start" /\ worker[p].quality_first
    /\ \E s \in RenderSizes(worker[p], NextDpi(worker[p])) :
          Step(p, QualityFirstStep(worker[p], s))

Phase1(p) ==
    /\ Returns(p) /\ worker[p].pc = "start" /\ ~worker[p].quality_first
    /\ \E s \in RenderSizes(worker[p], NextDpi(worker[p])) :
          Step(p, Phase1Step(worker[p], s))

Phase2(p) ==
    /\ Returns(p) /\ worker[p].pc = "phase2"
    /\ \E s \in RenderSizes(worker[p], NextDpi(worker[p])) :
          Step(p, Phase2Step(worker[p], s))

Phase3(p) ==
    /\ Returns(p) /\ worker[p].pc = "phase3"
    /\ \E s \in RenderSizes(worker[p], NextDpi(worker[p])) :
          Step(p, Phase3Step(worker[p], s))

Phase3Min(p) ==
    /\ Returns(p) /\ worker[p].pc = "phase3_min"
    /\ \E s \in RenderSizes(worker[p], NextDpi(worker[p])) :
          Step(p, Phase3MinStep(worker[p], s))

Phase4(p) ==
    /\ Returns(p) /\ worker[p].pc = "phase4"
    /\ \E s \in RenderSizes(worker[p], NextDpi(worker[p])) :
          Step(p, Phase4Step(worker[p], s))

Phase5Min(p) ==
    /\ Returns(p) /\ worker[p].pc = "phase5_min"
    /\ \E s \in RenderSizes(worker[p], NextDpi(worker[p])) :
          Step(p, Phase5MinStep(worker[p], s))

Phase5Emergency(p) ==
    /\ Returns(p) /\ worker[p].pc = "phase5_emergency"
    /\ \E s \in RenderSizes(worker[p], NextDpi(worker[p])) :
          Step(p, Phase5EmergencyStep(worker[p], s))

\* the render call about to be made raises
RenderRaises(p) ==
    /\ Running(p) /\ worker[p].enc.raises # "never"
    /\ Step(p, RaiseStep(worker[p]))

WorkerNext ==
    \/ \E p \in Pages : QualityFirst(p)
    \/ \E p \in Pages : Phase1(p)
    \/ \E p \in Pages : Phase2(p)
    \/ \E p \in Pages : Phase3(p)
    \/ \E p \in Pages : Phase3Min(p)
    \/ \E p \in Pages : Phase4(p)
    \/ \E p \in Pages : Phase5Min(p)
    \/ \E p \in Pages : Phase5Emergency(p)
    \/ \E p \in Pages : RenderRaises(p)

\* one worker, called on its own
NoScheduler == [mode |-> "worker"]

Init ==
    /\ worker \in {[p \in {0} |-> NewWorker(c.prm, c.enc)] : c \in SearchConfigs}
    /\ sched = NoScheduler

Next == WorkerNext

Spec == Init /\ [][Next]_vars

(***************************************************************************)
(* PDFConverter._convert_parallel: the pages of one document converted by  *)
(* a pool of worker processes.                                             *)
(***************************************************************************)
\* the largest document of the parallel runs
MaxPages == 3

\* multiprocessing.cpu_count() of the machines tried
CpuCounts == {1, 4, 8}

\* the pages a document is made of
PageEncoders ==
    {Quad1At300, Quad5p5At600,
     Encoder("free", 0, 1, "always", "cannot open page"),
     Encoder("free", 0, 1, "always", "")}

\* every step a worker can take from w: the render call returns some size,
\* or it raises
Advance(w, s) ==
    CASE w.pc = "start" /\ w.quality_first -> QualityFirstStep(w, s)
      [] w.pc = "start" /\ ~w.quality_first -> Phase1Step(w, s)
      [] w.pc = "phase2"           -> Phase2Step(w, s)
      [] w.pc = "phase3"           -> Phase3Step(w, s)
      [] w.pc = "phase3_min"       -> Phase3MinStep(w, s)
      [] w.pc = "phase4"           -> Phase4Step(w, s)
      [] w.pc = "phase5_min"       -> Phase5MinStep(w, s)
      [] w.pc = "phase5_emergency" -> Phase5EmergencyStep(w, s)

Successors(w) ==
    (IF w.enc.raises # "always"
     THEN {Advance(w, s) : s \in RenderSizes(w, NextDpi(w))} ELSE {})
    \cup (IF w.enc.raises # "never" THEN {RaiseStep(w)} ELSE {})

\* max(1, min(page_count, multiprocessing.cpu_count() // 2)): no cap of 4
ActualWorkersUncapped(page_count, cpu_count) ==
    Max2(1, Min2(page_count, cpu_count \div 2))

\* max(1, min(page_count, multiprocessing.cpu_count() // 2, 4))
ActualWorkers(page_count, cpu_count) ==
    Max2(1, Min2(page_count, Min2(cpu_count \div 2, MAX_POOL)))

\* _get_output_filename of a multi-page document: <subfolder>/page{n+1}.png
PagePath(p) == <<"page", p + 1>>

\* generated_files[i] of a page not (yet) stored
NoFile == <<"None", 0>>

\* the truth value of "if error:" for the worker's error_msg
IsErrorNever(error) == FALSE

IsError(error) == error # NoError /\ error # ""

\* file_size_mb of f"{file_size_mb:.2f}MB" in hundredths of a MB: the size
\* divided by 1024 * 1024 and rounded to two decimals, ties to even
SizeMB100(size) ==
    LET q == (size * 100) \div (1024 * 1024)
        r == (size * 100) % (1024 * 1024)
    IN  IF 2 * r > 1024 * 1024 \/ (2 * r = 1024 * 1024 /\ q % 2 = 1)
        THEN q + 1 ELSE q

\* one call of progress_callback: what the message tells.  kind is
\*   "document"   the file name and page count          (convert)
\*   "parallel"   the number of pool processes
\*   "page_ok"    page number, size in MB/100, resolution of a stored page
\*   "page_error" page number and error message of a failed page
\*   "warning"    one entry of errors, repeated after the loop
\*   "info"       a message of the sequential search about a render call
Event(kind, page, dpi, mb100, msg) ==
    [kind |-> kind, page |-> page, dpi |-> dpi, mb100 |-> mb100, msg |-> msg]

\* progress_callback(msg) if progress_callback is given
Emit(s, e) == IF s.callback THEN [s EXCEPT !.events = Append(@, e)] ELSE s

\* the state of _convert_parallel once every task is submitted
NewScheduler(n, cpus, prm, callback) ==
    [mode |-> "parallel", pc |-> "collect",
     page_count |-> n, max_dpi |-> prm.max_dpi,
     actual_workers |-> ActualWorkers(n, cpus),
     callback |-> callback,
     events |-> IF callback
                THEN <<Event("document", n, 0, 0, ""),
                       Event("parallel", ActualWorkers(n, cpus), 0, 0, "")>>
                ELSE << >>,
     started |-> {}, died |-> {}, broken |-> {}, collected |-> << >>,
     generated_files |-> [i \in 0..(n - 1) |-> NoFile],
     dpi_list |-> << >>, errors |-> << >>,
     result |-> [files |-> << >>, dpi_min |-> 0, dpi_max |-> 0]]

\* the tasks the pool processes are working on
Busy == {p \in sched.started : worker[p].pc \in RenderPoints}

\* a free pool process takes the next task of the queue
PoolStart(p) ==
    /\ sched.mode = "parallel"
    /\ p \notin sched.started
    /\ worker[p].pc \in RenderPoints
    /\ \A q \in Pages : q < p => q \in sched.started
    /\ Cardinality(Busy) < sched.actual_workers
    /\ sched' = [sched EXCEPT !.started = @ \cup {p}]
    /\ UNCHANGED worker

\* a running worker makes its next render call
WorkerRuns(p) ==
    /\ sched.mode = "parallel"
    /\ Running(p)
    /\ \E v \in Successors(worker[p]) : Step(p, v)

RECURSIVE SeqToSet(_)
SeqToSet(q) == IF q = << >> THEN {} ELSE {Head(q)} \cup SeqToSet(Tail(q))

\* os.path.getsize of a path that does not exist raises
NoSuchFile == -1

\* the size of a file left at a page's path by an earlier run
StaleSizes == {MaxSizeBytes(1)}

\* what os.path.getsize(file_path) can give for the path of worker w: the
\* size of the file the worker wrote, else no file or a file of an earlier run
GetSizes(w) ==
    IF w.written # << >> THEN {w.written[Len(w.written)].size}
    ELSE {NoSuchFile} \cup StaleSizes

\* errors.append(f"页 {page_num + 1}: {str(e)}") of "except Exception as e"
CollectedException(s, p, msg) ==
    [s EXCEPT !.collected = Append(@, p),
              !.errors = Append(@, [page |-> p + 1, msg |-> msg])]

\* Collected whose error branch falls through to the bookkeeping of a
\* stored page
CollectedNoElse(s, p, ret, fsize) ==
    LET t == [s EXCEPT !.generated_files[p] = PagePath(p),
                       !.dpi_list = Append(@, ret.dpi)]
    IN  IF IsError(ret.error)
        THEN Emit([t EXCEPT !.collected = Append(@, p),
                            !.errors = Append(@, [page |-> p + 1, msg |-> ret.error])],
                  Event("page_error", p + 1, 0, 0, ret.error))
        ELSE Emit([t EXCEPT !.collected = Append(@, p)],
                  Event("page_ok", p + 1, ret.dpi, SizeMB100(Max2(fsize, 0)), ""))

\* the body of "for future in as_completed(futures)" for the result ret of
\* page p; fsize is what os.path.getsize gives when the callback asks
Collected(s, p, ret, fsize) ==
    IF IsError(ret.error)
    THEN Emit([s EXCEPT !.collected = Append(@, p),
                        !.errors = Append(@, [page |-> p + 1, msg |-> ret.error])],
              Event("page_error", p + 1, 0, 0, ret.error))
    ELSE LET t == [s EXCEPT !.generated_files[p] = PagePath(p),
                            !.dpi_list = Append(@, ret.dpi)]
         IN  IF s.callback /\ fsize = NoSuchFile
             THEN CollectedException(t, p, "No such file or directory")
             ELSE Emit([t EXCEPT !.collected = Append(@, p)],
                       Event("page_ok", p + 1, ret.dpi, SizeMB100(fsize), ""))

\* as_completed yields the future of a finished page
Collect(p) ==
    /\ sched.mode = "parallel" /\ sched.pc = "collect"
    /\ worker[p].pc = "done" \/ p \in sched.broken
    /\ p \notin SeqToSet(sched.collected)
    /\ \E fsize \in (IF sched.callback /\ p \notin sched.broken
                     THEN GetSizes(worker[p]) ELSE {0}) :
          sched' = IF p \in sched.broken
                   THEN CollectedException(sched, p, "BrokenProcessPool")
                   ELSE Collected(sched, p, worker[p].ret, fsize)
    /\ UNCHANGED worker

\* the files in the order the pages were collected
RECURSIVE FilesAsCollected(_, _)
FilesAsCollected(files, order) ==
    IF order = << >> THEN << >>
    ELSE (IF files[Head(order)] = NoFile THEN << >> ELSE <<files[Head(order)]>>)
         \o FilesAsCollected(files, Tail(order))

\* [f for f in generated_files if f is not None], from page index i on
RECURSIVE FilesFrom(_, _, _)
FilesFrom(files, i, n) ==
    IF i >= n THEN << >>
    ELSE (IF files[i] = NoFile THEN << >> ELSE <<files[i]>>) \o FilesFrom(files, i + 1, n)

\* FinalFiles that keeps the order of completion
FinalFilesAsCollected(s) == FilesAsCollected(s.generated_files, s.collected)

FinalFiles(s) == FilesFrom(s.generated_files, 0, s.page_count)

RECURSIVE SeqMin(_)
SeqMin(q) == IF Len(q) = 1 THEN q[1] ELSE Min2(Head(q), SeqMin(Tail(q)))

RECURSIVE SeqMax(_)
SeqMax(q) == IF Len(q) = 1 THEN q[1] ELSE Max2(Head(q), SeqMax(Tail(q)))

\* the dictionary _convert_parallel returns
Result(s) ==
    [files |-> FinalFiles(s),
     dpi_min |-> IF s.dpi_list # << >> THEN SeqMin(s.dpi_list) ELSE s.max_dpi,
     dpi_max |-> IF s.dpi_list # << >> THEN SeqMax(s.dpi_list) ELSE s.max_dpi]

\* for error in errors: progress_callback(f"  ⚠ {error}")
RECURSIVE Warnings(_)
Warnings(errors) ==
    IF errors = << >> THEN << >>
    ELSE <<Event("warning", Head(errors).page, 0, 0, Head(errors).msg)>>
         \o Warnings(Tail(errors))

\* every future was yielded: filter the files, repeat the errors, return
Return ==
    /\ sched.mode = "parallel" /\ sched.pc = "collect"
    /\ Len(sched.collected) = sched.page_count
    /\ sched' = [sched EXCEPT !.pc = "returned", !.result = Result(sched),
                              !.events = IF sched.callback
                                         THEN @ \o Warnings(sched.errors) ELSE @]
    /\ UNCHANGED worker

SchedConfigs ==
    {[n |-> n, cpus |-> c, prm |-> Params(150, 600, 5, FALSE), callback |-> cb] :
        n \in 2..MaxPages, c \in CpuCounts, cb \in BOOLEAN}

InitSched ==
    \E c \in SchedConfigs :
       /\ worker \in [0..(c.n - 1) -> {NewWorker(c.prm, e) : e \in PageEncoders}]
       /\ sched = NewScheduler(c.n, c.cpus, c.prm, c.callback)

NextSched ==
    \/ \E p \in Pages : PoolStart(p)
    \/ \E p \in Pages : WorkerRuns(p)
    \/ \E p \in Pages : Collect(p)
    \/ Return

SpecSched == InitSched /\ [][NextSched]_vars

(***************************************************************************)
(* A pool process that terminates abruptly.  ProcessPoolExecutor then      *)
(* marks the pool broken: it terminates its other processes and every      *)
(* future that is not done, running or still queued, raises                *)
(* BrokenProcessPool from future.result(), which the collecting loop       *)
(* catches with "except Exception".                                        *)
(***************************************************************************)
Unfinished == {p \in Pages : worker[p].pc \in RenderPoints}

\* the process working on page k crashes or is killed
WorkerDies(k) ==
    /\ sched.mode = "parallel" /\ sched.pc = "collect"
    /\ k \in Busy
    /\ sched' = [sched EXCEPT !.died = {k}, !.broken = Unfinished]
    /\ worker' = [p \in Pages |->
                    IF p \in Unfinished
                    THEN [worker[p] EXCEPT !.pc = "killed"] ELSE worker[p]]

NextCrash ==
    \/ NextSched
    \/ \E k \in Pages : WorkerDies(k)

SpecCrash == InitSched /\ [][NextCrash]_vars

(***************************************************************************)
(* PDFConverter.convert: the arguments are validated, the document is      *)
(* opened to count its pages, and the pages are converted by the pool      *)
(* (_convert_parallel) or one after the other (_convert_sequential).       *)
(***************************************************************************)
\* 0 <= png_compress_level <= 9
ValidCompressLevel(level) == 0 <= level /\ level <= 9

Args(exists, mb, lo, hi, qf, level, parallel) ==
    [exists |-> exists, max_size_mb |-> mb, min_dpi |-> lo, max_dpi |-> hi,
     quality_first |-> qf, png_compress_level |-> level, parallel |-> parallel]

\* the search parameters of a call
ParamsOf(a) == Params(a.min_dpi, a.max_dpi, a.max_size_mb, a.quality_first)

\* convert() is called: nothing is checked or opened yet.  doc is the
\* document at pdf_path, a sequence of pages; cpus is cpu_count()
NewCall(a, doc, cpus) ==
    [mode |-> "convert", pc |-> "validate", args |-> a, doc |-> doc,
     cpus |-> cpus, error |-> NoError]

\* the checks of convert(), in their order: the kind of exception raised,
\* NoError when the arguments pass
ValidationError(a) ==
    IF ~a.exists THEN "FileNotFoundError"
    ELSE IF ~ValidParams(ParamsOf(a)) THEN "ValueError"
    ELSE IF ~ValidCompressLevel(a.png_compress_level) THEN "ValueError"
    ELSE NoError

\* lines 242-258: raise, or go on to create the output directory and open
ConvertValidate ==
    /\ sched.mode = "convert" /\ sched.pc = "validate"
    /\ sched' = IF ValidationError(sched.args) # NoError
                THEN [sched EXCEPT !.pc = "raised",
                                   !.error = ValidationError(sched.args)]
                ELSE [sched EXCEPT !.pc = "open"]
    /\ UNCHANGED worker

\* _get_output_filename: output_path itself for a one-page document
OutputFilename(p, page_count) ==
    IF page_count = 1 THEN <<"output", 1>> ELSE PagePath(p)

\* the dictionary _convert_sequential returns
SeqResult(s) ==
    [files |-> s.generated_files,
     dpi_min |-> IF s.dpi_list # << >> THEN SeqMin(s.dpi_list) ELSE s.max_dpi,
     dpi_max |-> IF s.dpi_list # << >> THEN SeqMax(s.dpi_list) ELSE s.max_dpi]

\* for page_num in range(page_count): the next page, or return
SeqLoop(s) ==
    IF s.page_num < s.page_count THEN s
    ELSE [s EXCEPT !.pc = "returned", !.result = SeqResult(s)]

\* _convert_sequential at its first page (no progress callback)
NewSequential(n, prm) ==
    SeqLoop([mode |-> "sequential", pc |-> "convert",
             page_count |-> n, max_dpi |-> prm.max_dpi, page_num |-> 0,
             generated_files |-> << >>, dpi_list |-> << >>,
             error |-> NoError,
             result |-> [files |-> << >>, dpi_min |-> 0, dpi_max |-> 0]])

\* doc = fitz.open(pdf_path); page_count = len(doc); then the dispatch on
\* "parallel and page_count > 1"
ConvertOpen ==
    /\ sched.mode = "convert" /\ sched.pc = "open"
    /\ LET n == Len(sched.doc)
           prm == ParamsOf(sched.args)
       IN  /\ worker' = [p \in 0..(n - 1) |-> NewWorker(prm, sched.doc[p + 1])]
           /\ sched' = IF sched.args.parallel /\ n > 1
                       THEN NewScheduler(n, sched.cpus, prm, FALSE)
                       ELSE NewSequential(n, prm)

\* the render call raised: nothing in _convert_page or _convert_sequential
\* catches it, and convert() raises ConversionError(f"转换失败: {e}")
SeqPageRaised(s, p, v) == [s EXCEPT !.pc = "raised", !.error = v.ret.error]

\* result = self._convert_page(...); if result: append the file and its DPI
SeqPageDone(s, p, v) ==
    SeqLoop([s EXCEPT !.generated_files = Append(@, OutputFilename(p, s.page_count)),
                      !.dpi_list = Append(@, v.ret.dpi),
                      !.page_num = p + 1])

\* the search of the current page (_render_quality_first or
\* _render_with_size_limit) makes its next render call
SeqRender(p) ==
    /\ sched.mode = "sequential" /\ sched.pc = "convert"
    /\ p = sched.page_num
    /\ worker[p].pc \in RenderPoints
    /\ \E v \in SeqSuccessors(worker[p]) :
          /\ worker' = [worker EXCEPT ![p] = v]
          /\ sched' = IF v.pc # "done" THEN sched
                      ELSE IF v.written = << >> THEN SeqPageRaised(sched, p, v)
                      ELSE SeqPageDone(sched, p, v)

\* argument values, valid and invalid ones
CallArgs ==
    {Args(ex, mb, r[1], r[2], FALSE, lv, par) :
        ex \in BOOLEAN, mb \in {-1, 0, 5},
        r \in {<<150, 600>>, <<600, 150>>, <<MIN_DPI - 1, 600>>,
               <<150, MAX_DPI + 1>>, <<MIN_DPI, MAX_DPI>>, <<300, 300>>},
        lv \in {-1, 0, 6, 9, 10}, par \in BOOLEAN}

\* every document of up to MaxPages pages
Documents ==
    UNION {[1..n -> PageEncoders] : n \in 0..MaxPages}

\* the calls tried: every combination of arguments on a two-page document,
\* and the default arguments on every document
ConvertCalls ==
    {NewCall(a, <<Quad1At300, Quad5p5At600>>, 4) : a \in CallArgs}
    \cup {NewCall(Args(TRUE, 5, 150, 600, qf, 6, par), doc, c) :
             qf \in BOOLEAN, par \in BOOLEAN, doc \in Documents, c \in CpuCounts}

InitConvert ==
    /\ sched \in ConvertCalls
    /\ worker = << >>

NextConvert ==
    \/ ConvertValidate
    \/ ConvertOpen
    \/ \E p \in Pages : SeqRender(p)
    \/ NextSched

SpecConvert == InitConvert /\ [][NextConvert]_vars

(***************************************************************************)
(* The search run again.  A page is converted by the pool worker, then by  *)
(* the pool worker a second time, then by the sequential path, each time   *)
(* from a fresh start and with the same parameters.  The page's renderer   *)
(* is one function of the resolution: a later run gets, at a resolution an *)
(* earlier run rendered, the size that run got (seen), and at any other    *)
(* resolution whatever the encoder model allows.  worker[0] and worker[1]  *)
(* are the two runs of the pool worker, sched.seq the sequential search.   *)
(***************************************************************************)
\* a search not yet begun
Waiting(prm, enc) == [NewWorker(prm, enc) EXCEPT !.pc = "waiting"]

\* a run that finds the output of the run before it and does nothing
RerunSkipsExisting(prm, enc, first) ==
    IF first.written # << >>
    THEN [NewWorker(prm, enc) EXCEPT !.seen = first.seen, !.pc = "done",
                                     !.written = first.written, !.ret = first.ret]
    ELSE [NewWorker(prm, enc) EXCEPT !.seen = first.seen]

\* the search handed the same page after the run first: it starts as every
\* run does (nothing is kept between two calls, an existing output file is
\* not looked at), and the page renders as it did
Rerun(prm, enc, first) == [NewWorker(prm, enc) EXCEPT !.seen = first.seen]

\* the width of the DPI range on which a page of arbitrary sizes is
\* converted again
MaxRunWidth == 30

\* the pages and parameters of the repeated runs: the renderer is
\* deterministic, so it raises always or never
RunConfigs ==
    {c \in SearchConfigs :
        /\ c.enc.raises # "sometimes"
        /\ c.enc.kind = "free" => c.enc.raises = "always"
        /\ c.enc.kind = "mono" => c.prm.min_dpi = MIN_DPI
        /\ c.enc.kind = "over" => c.prm.min_dpi \in {MIN_DPI, 150, 1200, MAX_DPI}}
    \cup {[prm |-> Params(MIN_DPI, MIN_DPI + MaxRunWidth, 5, FALSE),
           enc |-> Encoder("free", 0, 1, "never", "")]}

InitRuns ==
    \E c \in RunConfigs :
       /\ worker = <<NewWorker(c.prm, c.enc), Waiting(c.prm, c.enc)>>
       /\ sched = [mode |-> "runs", prm |-> c.prm, enc |-> c.enc,
                   seq |-> Waiting(c.prm, c.enc)]

\* the pool worker is given the page a second time
SecondRun ==
    /\ sched.mode = "runs"
    /\ worker[1].pc = "done" /\ worker[2].pc = "waiting"
    /\ worker' = [worker EXCEPT ![2] = Rerun(sched.prm, sched.enc, worker[1])]
    /\ UNCHANGED sched

\* the sequential path is given the page
SeqStart ==
    /\ sched.mode = "runs"
    /\ worker[2].pc = "done" /\ sched.seq.pc = "waiting"
    /\ sched' = [sched EXCEPT !.seq = Rerun(sched.prm, sched.enc, worker[2])]
    /\ UNCHANGED worker

\* the sequential search makes its next render call
SeqRun ==
    /\ sched.mode = "runs"
    /\ sched.seq.pc \in RenderPoints
    /\ \E v \in SeqSuccessors(sched.seq) : sched' = [sched EXCEPT !.seq = v]
    /\ UNCHANGED worker

NextRuns ==
    \/ WorkerNext
    \/ SecondRun
    \/ SeqStart
    \/ SeqRun

SpecRuns == InitRuns /\ [][NextRuns]_vars

(***************************************************************************)
(* The size of the pool, over documents and machines large enough for     *)
(* every term of the minimum to decide it.  The pages are all alike and    *)
(* are accepted at their first render.                                     *)
(***************************************************************************)
\* the largest document and the largest cpu_count() of the pool runs
MaxPoolPages == 5
MaxCpus == 10

PoolConfigs ==
    {[n |-> n, cpus |-> c, prm |-> Params(72, 300, 5, TRUE)] :
        n \in 2..MaxPoolPages, c \in 1..MaxCpus}

InitPool ==
    \E c \in PoolConfigs :
       /\ worker = [p \in 0..(c.n - 1) |-> NewWorker(c.prm, Quad1At300)]
       /\ sched = NewScheduler(c.n, c.cpus, c.prm, FALSE) @@ [cpus |-> c.cpus]

SpecPool == InitPool /\ [][NextSched]_vars

(***************************************************************************)
(* The desktop front end: ConverterWorker (converter_worker.py) starts     *)
(* converter_process.py as a separate process, writes the task to its      *)
(* stdin and turns the JSON lines of its stdout into signals.              *)
(***************************************************************************)
\* the most files given to one ConverterWorker
MaxFiles == 2

\* one JSON line of the subprocess's stdout (send_message)
Msg(type, file, a, b, c) == [type |-> type, file |-> file, a |-> a, b |-> b, c |-> c]

\* one emitted signal of ConverterWorker
Sig(name, file, a, b, c) == [name |-> name, file |-> file, a |-> a, b |-> b, c |-> c]

\* progress_callback of convert_file: a page_progress message for every
\* callback message that holds "✓ 页", "✗ 页" or "⚠ 页" and a ":", counted
\* from done on
RECURSIVE PageProgress(_, _, _, _)
PageProgress(events, file, done, total) ==
    IF events = << >> THEN << >>
    ELSE IF Head(events).kind \in {"page_ok", "page_error", "warning"}
         THEN <<Msg("page_progress", file, done + 1, total, 0)>>
              \o PageProgress(Tail(events), file, done + 1, total)
         ELSE PageProgress(Tail(events), file, done, total)

\* the documents the front end is given.  pages is len(doc), events the
\* callback messages of convert(), files the length of result['files'],
\* raises whether convert() raises
\*   "good1"    one page, converted (sequential path, quality first)
\*   "bad1"     one page whose render raises: convert() raises
\*   "mixed2"   two pages, the second fails with a message
\*   "allfail2" two pages that both fail with a message
\*   "missing"  no file at the path
GuiDoc(kind) ==
    CASE kind = "good1" ->
           [pages |-> 1, files |-> 1, raises |-> FALSE,
            events |-> <<Event("document", 1, 0, 0, ""), Event("info", 0, 300, 0, ""),
                         Event("info", 0, 0, 0, ""), Event("page_ok", 1, 300, 100, "")>>]
      [] kind = "bad1" ->
           [pages |-> 1, files |-> 0, raises |-> TRUE,
            events |-> <<Event("document", 1, 0, 0, ""), Event("info", 0, 300, 0, "")>>]
      [] kind = "mixed2" ->
           [pages |-> 2, files |-> 1, raises |-> FALSE,
            events |-> <<Event("document", 2, 0, 0, ""), Event("parallel", 1, 0, 0, ""),
                         Event("page_ok", 1, 300, 100, ""),
                         Event("page_error", 2, 0, 0, "cannot open page"),
                         Event("warning", 2, 0, 0, "cannot open page")>>]
      [] kind = "allfail2" ->
           [pages |-> 2, files |-> 0, raises |-> FALSE,
            events |-> <<Event("document", 2, 0, 0, ""), Event("parallel", 1, 0, 0, ""),
                         Event("page_error", 1, 0, 0, "cannot open page"),
                         Event("page_error", 2, 0, 0, "cannot open page"),
                         Event("warning", 1, 0, 0, "cannot open page"),
                         Event("warning", 2, 0, 0, "cannot open page")>>]
      [] OTHER ->
           [pages |-> 0, files |-> 0, raises |-> TRUE, events |-> << >>]

GuiDocKinds == {"good1", "bad1", "mixed2", "allfail2", "missing"}

\* the indexes of q, in order, whose element has property Keep
RECURSIVE Indexes(_, _, _)
Indexes(q, i, missing) ==
    IF i > Len(q) THEN << >>
    ELSE (IF (q[i] = "missing") = missing THEN <<i>> ELSE << >>)
         \o Indexes(q, i + 1, missing)

\* the signals start() emits for the missing files
RECURSIVE MissingSignals(_)
MissingSignals(missing) ==
    IF missing = << >> THEN << >>
    ELSE <<Sig("progress_updated", Head(missing), 0, 0, 0),
           Sig("file_completed", Head(missing), 0, 0, 0)>>
         \o MissingSignals(Tail(missing))

\* the signals start() emits for the files handed to the subprocess
RECURSIVE StartSignals(_)
StartSignals(valid) ==
    IF valid = << >> THEN << >>
    ELSE <<Sig("progress_updated", Head(valid), 0, 0, 0)>> \o StartSignals(Tail(valid))

\* a ConverterWorker after __init__; a file is named by its place in files
NewGui(files) ==
    [mode |-> "gui", pc |-> "init", files |-> files, valid |-> << >>,
     proc |-> "none", sub |-> "read", i |-> 1,
     success_count |-> 0, failed_count |-> 0,
     pipe |-> << >>, signals |-> << >>,
     cancelled |-> FALSE, in_progress |-> 0]

\* ConverterWorker.start(); started is the outcome of waitForStarted(5000)
GuiStarted(s, started) ==
    LET missing == Indexes(s.files, 1, TRUE)
        valid == Indexes(s.files, 1, FALSE)
        t == [s EXCEPT !.signals = @ \o MissingSignals(missing)]
    IN  IF valid = << >>
        THEN [t EXCEPT !.pc = "idle",
                       !.signals = Append(@, Sig("all_completed", 0, Len(s.files), 0,
                                                 Len(missing)))]
        ELSE IF ~started
        THEN [t EXCEPT !.pc = "idle", !.valid = valid,
                       !.signals = Append(@, Sig("all_completed", 0, Len(valid), 0,
                                                 Len(valid)))]
        ELSE [t EXCEPT !.pc = "running", !.valid = valid, !.proc = "running",
                       !.signals = @ \o StartSignals(valid)]

GuiStart ==
    /\ sched.mode = "gui" /\ sched.pc = "init"
    /\ \E started \in BOOLEAN : sched' = GuiStarted(sched, started)
    /\ UNCHANGED worker

\* the subprocess runs: it was started and has neither exited nor been killed
SubRuns == sched.mode = "gui" /\ sched.proc \in {"running", "terminating"}

\* main(): "for file_path in files", then the completed message and the exit
SubLoop(s) ==
    IF s.i <= Len(s.valid) THEN [s EXCEPT !.sub = "file"]
    ELSE [s EXCEPT !.sub = "done", !.proc = "exited",
                   !.pipe = Append(@, Msg("completed", 0, Len(s.valid),
                                          s.success_count, s.failed_count))]

\* main() reads the task from stdin
SubReadTask ==
    /\ SubRuns /\ sched.sub = "read"
    /\ sched' = SubLoop(sched)
    /\ UNCHANGED worker

\* convert_file up to the start message: the page count is read
SubOpen ==
    /\ SubRuns /\ sched.sub = "file"
    /\ sched' = [sched EXCEPT !.sub = "convert",
                              !.pipe = Append(@, Msg("start", sched.valid[sched.i],
                                                     GuiDoc(sched.files[sched.valid[sched.i]]).pages,
                                                     0, 0))]
    /\ UNCHANGED worker

\* convert_file from converter.convert() on: the page_progress messages of
\* the callback, then success, or error when no file was generated or
\* convert() raised; then the next file
SubConverted(s) ==
    LET f == s.valid[s.i]
        d == GuiDoc(s.files[f])
        progress == PageProgress(d.events, f, 0, d.pages)
    IN  IF ~d.raises /\ d.files > 0
        THEN SubLoop([s EXCEPT !.pipe = (@ \o progress)
                                          \o <<Msg("success", f, d.files, 0, 0)>>,
                               !.success_count = @ + 1, !.i = @ + 1])
        ELSE SubLoop([s EXCEPT !.pipe = (@ \o progress)
                                          \o <<Msg("error", f, 0, 0, 0)>>,
                               !.failed_count = @ + 1, !.i = @ + 1])

SubConvert ==
    /\ SubRuns /\ sched.sub = "convert"
    /\ sched' = SubConverted(sched)
    /\ UNCHANGED worker

\* the subprocess crashes or is killed from outside
SubCrash ==
    /\ sched.mode = "gui" /\ sched.proc = "running"
    /\ sched' = [sched EXCEPT !.proc = "exited"]
    /\ UNCHANGED worker

\* _process_message: the signals emitted for one message
Processed(s, m) ==
    CASE m.type = "start"   -> <<Sig("progress_updated", m.file, 0, 0, 0)>>
      [] m.type = "success" -> <<Sig("progress_updated", m.file, 100, 0, 0),
                                 Sig("file_result", m.file, m.a, 0, 0),
                                 Sig("file_completed", m.file, 1, 0, 0)>>
      [] m.type = "error"   -> <<Sig("progress_updated", m.file, 0, 0, 0),
                                 Sig("file_completed", m.file, 0, 0, 0)>>
      [] m.type = "page_progress" -> <<Sig("page_progress", m.file, m.a, m.b, 0)>>
      [] m.type = "completed" -> <<Sig("all_completed", 0, m.a, m.b, m.c)>>
      [] m.type = "fatal" -> <<Sig("all_completed", 0, Len(s.valid), 0, Len(s.valid))>>
      [] OTHER -> << >>

\* _on_stdout (and _on_finished for the rest of the buffer): the next line
GuiRead ==
    /\ sched.mode = "gui" /\ sched.pipe # << >>
    /\ sched' = [sched EXCEPT !.pipe = Tail(@),
                              !.signals = @ \o Processed(sched, Head(sched.pipe))]
    /\ UNCHANGED worker

\* cancel(): terminate() asks the process to exit.  It exits at once, or
\* (a process that does not act on the request) runs on until kill()
GuiCancel ==
    /\ sched.mode = "gui" /\ sched.pc = "running" /\ ~sched.cancelled
    /\ \E survives \in BOOLEAN :
          sched' = IF sched.proc # "running"
                   THEN [sched EXCEPT !.cancelled = TRUE]
                   ELSE [sched EXCEPT !.cancelled = TRUE,
                                      !.proc = IF survives THEN "terminating"
                                               ELSE "exited",
                                      !.in_progress = IF sched.sub = "convert"
                                                      THEN sched.valid[sched.i] ELSE 0]
    /\ UNCHANGED worker

\* cancel(): waitForFinished(1000) ran out, kill()
GuiKill ==
    /\ sched.mode = "gui" /\ sched.proc = "terminating"
    /\ sched' = [sched EXCEPT !.proc = "exited"]
    /\ UNCHANGED worker

GuiFileLists == UNION {[1..n -> GuiDocKinds] : n \in 1..MaxFiles}

InitGui ==
    /\ sched \in {NewGui(files) : files \in GuiFileLists}
    /\ worker = << >>

NextGui ==
    \/ GuiStart
    \/ SubReadTask
    \/ SubOpen
    \/ SubConvert
    \/ SubCrash
    \/ GuiRead
    \/ GuiCancel
    \/ GuiKill

SpecGui == InitGui /\ [][NextGui]_vars

(***************************************************************************)
(* Properties of the per-page search.                                      *)
(***************************************************************************)
\* the worker returned a result without error: it wrote its file
Succeeded(w) == w.pc = "done" /\ w.written # << >>

\* the worker caught an exception
Raised(w) == w.pc = "done" /\ w.written = << >>

WrittenSize(w) == w.written[Len(w.written)].size

RenderedBelow(w, dpi) == \E i \in 1..Len(w.calls) : w.calls[i] < dpi

\* C1 (budget respect): with quality_first = false the bytes written are at
\* most max_size_bytes, unless the emergency scale-down of step 5 ended at
\* an emergency resolution <= 36 with the result still over the limit.
C1_BudgetRespect ==
    \A p \in Pages :
       LET w == worker[p]
       IN  (Succeeded(w) /\ ~w.quality_first) =>
              \/ WrittenSize(w) <= w.max_size_bytes
              \/ w.phase5 /\ w.emergency_dpi <= ABS_FLOOR_DPI

\* the emergency loop ran on an arbitrary encoder and brought the size
\* back under the limit
C1_Witness ==
    \E p \in Pages :
       LET w == worker[p]
       IN  /\ Succeeded(w) /\ ~w.quality_first /\ w.enc.kind = "free"
           /\ w.phase5 /\ w.emergency_dpi < w.min_dpi
           /\ WrittenSize(w) <= w.max_size_bytes

\* C2 (quality-first bypass): with quality_first = true the search makes
\* exactly one render call, at max_dpi, writes its result whatever the size
\* and returns max_dpi.
C2_QualityFirst ==
    \A p \in Pages :
       LET w == worker[p]
       IN  w.quality_first =>
              /\ Len(w.calls) <= 1
              /\ w.pc \in {"start", "done"}
              /\ Succeeded(w) =>
                    /\ w.calls = <<w.max_dpi>>
                    /\ w.written = <<[dpi |-> w.max_dpi, size |-> w.seen[w.max_dpi]]>>
                    /\ w.ret = [dpi |-> w.max_dpi, error |-> NoError]

\* a quality-first result larger than the limit was written
C2_Witness ==
    \E p \in Pages :
       LET w == worker[p]
       IN  /\ w.quality_first /\ Succeeded(w)
           /\ WrittenSize(w) > w.max_size_bytes

\* the size measured at max_dpi is within the limit
FitsAtMax(w) ==
    /\ ~w.quality_first
    /\ w.max_dpi \in DOMAIN w.seen
    /\ w.seen[w.max_dpi] <= w.max_size_bytes

\* C3 (optimistic ceiling): with quality_first = false, if the size at
\* max_dpi is <= the limit (inclusive), the search makes exactly one render
\* call, writes that result and returns max_dpi.
C3_OptimisticCeiling ==
    \A p \in Pages :
       LET w == worker[p]
       IN  FitsAtMax(w) =>
              /\ w.pc = "done"
              /\ w.calls = <<w.max_dpi>>
              /\ w.written = <<[dpi |-> w.max_dpi, size |-> w.seen[w.max_dpi]]>>
              /\ w.ret = [dpi |-> w.max_dpi, error |-> NoError]

\* the size at max_dpi is exactly the limit
C3_Witness ==
    \E p \in Pages :
       LET w == worker[p]
       IN  FitsAtMax(w) /\ w.seen[w.max_dpi] = w.max_size_bytes /\ Succeeded(w)

\* the encoder is monotone with size(min_dpi) <= limit < size(max_dpi)
MonotoneCase(w) ==
    /\ ~w.quality_first
    /\ w.enc.raises = "never"
    /\ \/ w.enc.kind = "mono"
       \/ /\ w.enc.kind = "quad"
          /\ QuadSize(w.enc.num, w.enc.den, w.min_dpi) <= w.max_size_bytes
          /\ QuadSize(w.enc.num, w.enc.den, w.max_dpi) > w.max_size_bytes

\* size(dpi) > limit for the encoder of w: computed for "quad"; for "mono",
\* in every monotone function that has the sizes seen
OverAt(w, dpi) ==
    IF w.enc.kind = "quad"
    THEN QuadSize(w.enc.num, w.enc.den, dpi) > w.max_size_bytes
    ELSE \E d \in DOMAIN w.seen : d <= dpi /\ w.seen[d] > w.max_size_bytes

ScenarioParams(w) ==
    /\ w.min_dpi = 150 /\ w.max_dpi = 600 /\ w.max_size_bytes = MaxSizeBytes(5)
    /\ ~w.quality_first /\ w.enc.raises = "never"

\* 8 MB at 600 DPI, limit 5 MB
Scenario8MB(w) == ScenarioParams(w) /\ w.enc.kind = "quad" /\ w.enc.num = Quad8At600.num

\* 1 MB at 300 DPI, limit 5 MB
Scenario1MB(w) == ScenarioParams(w) /\ w.enc.kind = "quad" /\ w.enc.num = Quad1At300.num

\* C5 (scenario, 8 MB at 600 DPI): the search returns a resolution in
\* [450, 600) whose size is <= 5 MB and >= 4.5 MB, with at most 10 render
\* calls.
C5_Scenario8MB ==
    \A p \in Pages :
       LET w == worker[p]
       IN  Scenario8MB(w) =>
              /\ Len(w.calls) <= 10
              /\ Succeeded(w) =>
                    /\ 450 <= w.ret.dpi /\ w.ret.dpi < 600
                    /\ w.written = <<[dpi |-> w.ret.dpi,
                                      size |-> QuadSize(w.enc.num, w.enc.den, w.ret.dpi)]>>
                    /\ WrittenSize(w) <= MaxSizeBytes(5)
                    /\ 10 * WrittenSize(w) >= 9 * MaxSizeBytes(5)

\* the scenario ended, after the back-off and the upward approximation
C5_Witness ==
    \E p \in Pages :
       LET w == worker[p]
       IN  /\ Scenario8MB(w) /\ Succeeded(w)
           /\ w.phase4_from = 450 /\ w.ret.dpi = 474 /\ Len(w.calls) = 5

\* C6 as stated (scenario, 1 MB at 300 DPI): step 4 runs and raises the
\* resolution above the first accepted one; the size is not over the limit.
C6_Original ==
    \A p \in Pages :
       LET w == worker[p]
       IN  (Scenario1MB(w) /\ Succeeded(w)) =>
              /\ w.phase4_from > 0
              /\ w.ret.dpi > w.phase4_from
              /\ WrittenSize(w) <= w.max_size_bytes

\* C6 (amended): the render of step 1 at max_dpi = 600 is 4 MB, within the
\* 5 MB limit, so the search makes that one render call, writes it and
\* returns 600; step 4 does not run.
C6_Scenario1MB ==
    \A p \in Pages :
       LET w == worker[p]
       IN  Scenario1MB(w) =>
              /\ w.pc \in {"start", "done"}
              /\ w.phase4_from = 0
              /\ Succeeded(w) =>
                    /\ w.calls = <<600>>
                    /\ w.ret.dpi = 600
                    /\ w.written = <<[dpi |-> 600, size |-> MaxSizeBytes(4)]>>

\* the 1 MB scenario ended with the 4 MB render of step 1 written
C6_Witness ==
    \E p \in Pages :
       LET w == worker[p]
       IN  Scenario1MB(w) /\ Succeeded(w) /\ WrittenSize(w) = MaxSizeBytes(4)

\* C7 (absolute floor): no render call is made at, and no result is
\* returned with, a resolution below 36.
C7_AbsoluteFloor ==
    \A p \in Pages :
       LET w == worker[p]
       IN  /\ ~RenderedBelow(w, ABS_FLOOR_DPI)
           /\ Succeeded(w) => w.ret.dpi >= ABS_FLOOR_DPI

\* the number of rounds of a bisection loop that starts at the given width
RECURSIVE Halvings(_, _)
Halvings(width, stop) ==
    IF width <= stop THEN 0 ELSE 1 + Halvings((width + 1) \div 2, stop)

\* the number of rounds of the emergency loop that starts at dpi
RECURSIVE ScaleDowns(_)
ScaleDowns(dpi) ==
    IF dpi <= ABS_FLOOR_DPI THEN 0 ELSE 1 + ScaleDowns(EmergencyDpi(dpi))

\* the most render calls one search can make with the parameters of w
RenderBound(w) ==
    1 + PHASE2_ROUNDS + Halvings(w.max_dpi - w.min_dpi, PHASE3_WIDTH) + 1
      + Max2(Halvings(UpwardDpi(w.max_dpi) - w.max_dpi, PHASE4_WIDTH),
             1 + ScaleDowns(w.min_dpi))

\* C8 (termination): a search that has not returned can always take its
\* next step; every step is one render call, of at most RenderBound in all;
\* step 2 runs at most 3 rounds, each bisection round that stays in its loop
\* strictly shrinks the interval, and each emergency round strictly lowers
\* the resolution, the loop going on only while it is > 36.
C8_Termination ==
    /\ [](\A p \in Pages :
            /\ worker[p].pc \in RenderPoints \cup {"done"}
            /\ worker[p].pc \in RenderPoints => Successors(worker[p]) # {})
    /\ [][\A p \in Pages :
             LET w == worker[p]
                 v == worker'[p]
             IN  v # w =>
                    /\ Len(v.calls) = Len(w.calls) + 1
                    /\ Len(v.calls) <= RenderBound(w)
                    /\ v.round <= PHASE2_ROUNDS
                    /\ (w.pc = "phase2" /\ ~Raised(v)) => v.round = w.round + 1
                    /\ (w.pc \in {"phase3", "phase4"} /\ v.pc = w.pc) =>
                          /\ v.high_dpi - v.low_dpi < w.high_dpi - w.low_dpi
                          /\ v.high_dpi - v.low_dpi >= 0
                    /\ (w.pc = "phase5_emergency" /\ ~Raised(v)) =>
                          /\ v.emergency_dpi < w.emergency_dpi
                          /\ v.emergency_dpi > 0
                    /\ v.pc = "phase5_emergency" => v.emergency_dpi > ABS_FLOOR_DPI
         ]_vars

\* an always-oversized page went through the back-off rounds and the
\* emergency loop down to the floor
C8_Witness ==
    \E p \in Pages :
       LET w == worker[p]
       IN  /\ Succeeded(w) /\ w.enc.kind = "over"
           /\ w.emergency_dpi <= ABS_FLOOR_DPI
           /\ Len(w.calls) >= 1 + PHASE2_ROUNDS + 1 + ScaleDowns(w.min_dpi)

\* the worker returned a failure outcome
Failed(w) == w.ret.error # NoError

\* the worker returned a success outcome
ReturnedOk(w) == w.pc = "done" /\ w.ret.error = NoError

\* C17 (fail-fast inside the search): a render call that raises, in any
\* phase, ends the search: the worker returns (dpi 0, the exception's
\* message) instead of raising, it has written nothing to the output file,
\* and it makes no further render call.
C17_FailFast ==
    /\ [](\A p \in Pages :
            LET w == worker[p]
            IN  Failed(w) =>
                   /\ w.pc = "done"
                   /\ w.written = << >>
                   /\ w.ret = [dpi |-> 0, error |-> w.enc.msg])
    /\ [][\A p \in Pages :
             LET w == worker[p]
                 v == worker'[p]
             IN  /\ RenderRaises(p) =>
                       /\ Failed(v) /\ v.pc = "done"
                       /\ Len(v.calls) = Len(w.calls) + 1
                 /\ Failed(w) => v = w
         ]_vars

\* a render call of the emergency loop raised, after renders in steps 1, 2,
\* 3 and 5 had returned
C17_Witness ==
    \E p \in Pages :
       LET w == worker[p]
       IN  /\ Failed(w) /\ w.phase5
           /\ w.calls[Len(w.calls)] < w.min_dpi
           /\ w.result_bytes.size > w.max_size_bytes

\* C18 (single write of the selected attempt): a search that returns
\* success has written the output file exactly once, in the step of its
\* last render call and never before or after, and the bytes written are
\* those produced by the render call at the resolution it returns.
C18_SingleWrite ==
    /\ [](\A p \in Pages :
            LET w == worker[p]
            IN  ReturnedOk(w) =>
                   /\ Len(w.written) = 1
                   /\ w.ret.dpi \in DOMAIN w.seen
                   /\ w.ret.dpi \in SeqToSet(w.calls)
                   /\ w.written[1] = [dpi |-> w.ret.dpi, size |-> w.seen[w.ret.dpi]])
    /\ [][\A p \in Pages :
             LET w == worker[p]
                 v == worker'[p]
             IN  /\ v.written # w.written =>
                       /\ w.written = << >> /\ Len(v.written) = 1
                       /\ ReturnedOk(v)
                       /\ Len(v.calls) = Len(w.calls) + 1
                 /\ w.pc = "done" => v = w
         ]_vars

\* step 4 raised the resolution of an arbitrary page above the one it
\* started from, and a later midpoint was over the limit
C18_Witness ==
    \E p \in Pages :
       LET w == worker[p]
       IN  /\ ReturnedOk(w) /\ w.enc.kind = "free"
           /\ w.phase4_from > 0 /\ w.ret.dpi > w.phase4_from
           /\ w.calls[Len(w.calls)] # w.ret.dpi
           /\ Len(w.written) = 1

(***************************************************************************)
(* Properties of the parallel scheduler.                                   *)
(***************************************************************************)
Returned == sched.mode = "parallel" /\ sched.pc = "returned"

\* page k always raises with a non-empty message, no other page raises
OnlyFails(k) ==
    /\ worker[k].enc.raises = "always" /\ worker[k].enc.msg # ""
    /\ \A p \in Pages \ {k} : worker[p].enc.raises = "never"

\* the resolution the search of the page returns when the page is converted
\* on its own: 600 when it fits at max_dpi, 543 after one back-off round
SoloDpi(w) == IF w.enc.num = Quad1At300.num THEN 600 ELSE 543

\* the paths of the pages from i on, page k left out
RECURSIVE PathsWithout(_, _, _)
PathsWithout(i, n, k) ==
    IF i >= n THEN << >>
    ELSE (IF i = k THEN << >> ELSE <<PagePath(i)>>) \o PathsWithout(i + 1, n, k)

\* C9 (failure isolation): when page k alone fails, with a non-empty
\* message, the result holds exactly the files of the other pages, in page
\* order, their resolutions are those of their own searches, and exactly
\* one error is recorded, for page k.
C9_FailureIsolation ==
    \A k \in Pages :
       (Returned /\ OnlyFails(k)) =>
          /\ sched.result.files = PathsWithout(0, sched.page_count, k)
          /\ Len(sched.result.files) = sched.page_count - 1
          /\ sched.errors = <<[page |-> k + 1, msg |-> worker[k].enc.msg]>>
          /\ Len(sched.dpi_list) = sched.page_count - 1
          /\ \A p \in Pages \ {k} :
                /\ Succeeded(worker[p])
                /\ worker[p].ret.dpi = SoloDpi(worker[p])
                /\ \E i \in 1..Len(sched.collected) :
                      /\ sched.collected[i] = p
                      /\ sched.dpi_list[Cardinality({j \in 1..i : sched.collected[j] # k})]
                            = SoloDpi(worker[p])
          /\ \A p \in Pages \ {k} :
                /\ sched.result.dpi_min <= SoloDpi(worker[p])
                /\ sched.result.dpi_max >= SoloDpi(worker[p])
          /\ \E p \in Pages \ {k} : sched.result.dpi_min = SoloDpi(worker[p])
          /\ \E p \in Pages \ {k} : sched.result.dpi_max = SoloDpi(worker[p])

\* the middle page of three failed and was collected first; the other two
\* pages came back with different resolutions
C9_Witness ==
    /\ Returned /\ sched.page_count = 3 /\ OnlyFails(1)
    /\ sched.collected[1] = 1
    /\ sched.result.dpi_min = 543 /\ sched.result.dpi_max = 600
    /\ Len(sched.result.files) = 2

Ascending(files) ==
    \A i, j \in 1..Len(files) : i < j => files[i][2] < files[j][2]

\* C10 (output ordering): whatever the order in which the workers complete,
\* 'files' lists the paths of the succeeded pages in ascending page order.
C10_OutputOrdering ==
    Returned =>
       /\ Ascending(sched.result.files)
       /\ \A p \in Pages :
             (\E i \in 1..Len(sched.result.files) : sched.result.files[i] = PagePath(p))
                <=> ~IsError(worker[p].ret.error)

\* three pages succeeded and were collected in descending page order
C10_Witness ==
    /\ Returned
    /\ sched.collected = <<2, 1, 0>>
    /\ Len(sched.result.files) = 3

InFiles(p) == PagePath(p) \in SeqToSet(sched.result.files)

\* C11 (only successful pages count): a page whose worker caught an
\* exception, whatever its message, is not in 'files' and adds nothing to
\* the resolutions dpi_min and dpi_max are taken from, so both are
\* resolutions returned by pages that succeeded.
C11_OnlySuccessfulCount ==
    Returned =>
       /\ \A p \in Pages : Raised(worker[p]) => ~InFiles(p)
       /\ Len(sched.dpi_list) = Cardinality({p \in Pages : Succeeded(worker[p])})
       /\ (\E p \in Pages : Succeeded(worker[p])) =>
             /\ \E p \in Pages : Succeeded(worker[p]) /\ sched.result.dpi_min = worker[p].ret.dpi
             /\ \E p \in Pages : Succeeded(worker[p]) /\ sched.result.dpi_max = worker[p].ret.dpi

\* C12 (aggregate range and default): dpi_min <= dpi_max in every result;
\* when no page succeeded, dpi_min = dpi_max = max_dpi and 'files' is empty.
C12_RangeAndDefault ==
    Returned =>
       /\ sched.result.dpi_min <= sched.result.dpi_max
       /\ (\A p \in Pages : ~Succeeded(worker[p])) =>
             /\ sched.result.dpi_min = sched.max_dpi
             /\ sched.result.dpi_max = sched.max_dpi
             /\ sched.result.files = << >>

\* C13 (errors in the aggregate result): the returned result holds an error
\* list with an entry, page and message, for every page that failed.
C13_ErrorsInResult ==
    Returned =>
       /\ "errors" \in DOMAIN sched.result
       /\ \A p \in Pages :
             Raised(worker[p]) =>
                \E i \in 1..Len(sched.result.errors) :
                   /\ sched.result.errors[i].page = p + 1
                   /\ sched.result.errors[i].msg = worker[p].ret.error

(***************************************************************************)
(* Properties of convert() and of the sequential path.                     *)
(***************************************************************************)
\* C14 (no page error aborts the document): in a sequential run of a
\* multi-page document, when the render of page k raises, convert() does
\* not raise for the document, and once it has returned every page after k
\* has been converted.
C14_NoAbort ==
    (sched.mode = "sequential" /\ sched.page_count > 1) =>
       \A k \in Pages :
          Raised(worker[k]) =>
             /\ sched.pc # "raised"
             /\ sched.pc = "returned" =>
                   \A q \in Pages : q > k => worker[q].pc = "done"

\* the call is one the claim names: max_size_mb <= 0, min_dpi > max_dpi, a
\* DPI outside [72, 2400], or png_compress_level outside [0, 9]
ConfigurationError(a) ==
    \/ a.max_size_mb <= 0
    \/ a.min_dpi > a.max_dpi
    \/ a.min_dpi < 72 \/ a.min_dpi > 2400
    \/ a.max_dpi < 72 \/ a.max_dpi > 2400
    \/ a.png_compress_level < 0 \/ a.png_compress_level > 9

\* C16 (configuration errors fail closed): a call with a configuration
\* error never gets past the validation: its only step is to raise
\* (ValueError when the input file exists), the document is not opened, no
\* worker exists, no render call is made and nothing is written.
C16_ConfigFailClosed ==
    /\ []((sched.mode = "convert" /\ ConfigurationError(sched.args)) =>
            /\ sched.pc \in {"validate", "raised"}
            /\ Pages = {}
            /\ sched.pc = "raised" =>
                  sched.error = IF sched.args.exists THEN "ValueError"
                                ELSE "FileNotFoundError")
    /\ [][(sched.mode = "convert" /\ ConfigurationError(sched.args)) =>
             /\ sched'.mode = "convert"
             /\ sched'.args = sched.args
             /\ sched'.pc = "raised"
             /\ worker' = worker
         ]_vars

\* a call whose only fault is min_dpi > max_dpi was rejected
C16_Witness ==
    /\ sched.mode = "convert" /\ sched.pc = "raised"
    /\ sched.error = "ValueError"
    /\ sched.args.min_dpi = 600 /\ sched.args.max_dpi = 150
    /\ sched.args.max_size_mb = 5 /\ sched.args.png_compress_level = 6
    /\ Pages = {}

(***************************************************************************)
(* Properties of a parallel run in which a pool process dies.              *)
(***************************************************************************)
HasError(p) == \E i \in 1..Len(sched.errors) : sched.errors[i].page = p + 1

\* C15 (worker-crash isolation): when the pool process working on page k
\* dies, only page k is reported as failed: every other page whose renders
\* do not raise is converted, is in 'files' and has no error entry.
C15_CrashIsolation ==
    Returned =>
       \A k \in sched.died :
          /\ HasError(k) /\ ~InFiles(k)
          /\ \A p \in Pages \ {k} :
                worker[p].enc.raises = "never" =>
                   /\ Succeeded(worker[p])
                   /\ InFiles(p)
                   /\ ~HasError(p)

(***************************************************************************)
(* Properties of the page tasks and of the progress callback.              *)
(***************************************************************************)
\* every failure outcome carries a non-empty message
NonEmptyMessages == \A p \in Pages : worker[p].ret.error # ""

\* C19 (page-task state machine): a page's task is taken up by the pool at
\* most once, runs only after that, and once it has returned its outcome,
\* success or failure, it never runs again; its future is collected once.
\* When failures carry a non-empty message, after the scheduler returns
\* every page is counted exactly once: as a file or as an error, and the
\* number of files plus the number of errors is page_count.
C19_PageTaskStates ==
    /\ [](/\ \A p \in Pages : ~(Failed(worker[p]) /\ worker[p].written # << >>)
          /\ Cardinality(SeqToSet(sched.collected)) = Len(sched.collected)
          /\ Returned =>
                /\ SeqToSet(sched.collected) = Pages
                /\ \A p \in Pages : worker[p].pc = "done"
          /\ (Returned /\ NonEmptyMessages) =>
                /\ Len(sched.result.files) + Len(sched.errors) = sched.page_count
                /\ \A p \in Pages :
                      /\ InFiles(p) <=> ReturnedOk(worker[p])
                      /\ HasError(p) <=> Failed(worker[p])
                      /\ InFiles(p) # HasError(p))
    /\ [][\A p \in Pages :
             /\ p \in sched.started => p \in sched'.started
             /\ p \notin sched.started => worker'[p] = worker[p]
             /\ worker[p].pc = "done" => worker'[p] = worker[p]
             /\ p \in SeqToSet(sched.collected) =>
                   /\ p \in SeqToSet(sched'.collected)
                   /\ sched'.generated_files[p] = sched.generated_files[p]
         ]_vars

\* of three pages two failed with a message and one was stored, with a
\* progress callback
C19_Witness ==
    /\ Returned /\ NonEmptyMessages /\ sched.callback
    /\ sched.page_count = 3
    /\ Len(sched.result.files) = 1 /\ Len(sched.errors) = 2
    /\ InFiles(1)

\* the event at position i is a completion event of page p: the resolution
\* found with the byte size, or the error with its message
CompletionEvent(i, p) ==
    LET e == sched.events[i]
    IN  /\ e.page = p + 1
        /\ \/ e.kind = "page_ok" /\ e.dpi = worker[p].ret.dpi
           \/ e.kind = "page_error" /\ e.msg = worker[p].ret.error

\* C20 (progress events): in a run with a progress callback, every page has
\* a page-start event before its completion event (resolution found, or
\* error), and a document-complete event comes after all page events.
C20_ProgressEvents ==
    (Returned /\ sched.callback) =>
       /\ \A p \in Pages :
             \E i, j \in 1..Len(sched.events) :
                /\ i < j
                /\ sched.events[i].kind = "page_start"
                /\ sched.events[i].page = p + 1
                /\ CompletionEvent(j, p)
       /\ sched.events # << >>
       /\ sched.events[Len(sched.events)].kind = "document_complete"

(***************************************************************************)
(* Properties of the desktop front end.                                    *)
(***************************************************************************)
\* file_completed(file, True) or file_result(file, ...) was emitted
SuccessSignalled(file) ==
    \E k \in 1..Len(sched.signals) :
       /\ sched.signals[k].file = file
       /\ \/ sched.signals[k].name = "file_result"
          \/ sched.signals[k].name = "file_completed" /\ sched.signals[k].a = 1

\* C21 (cancellation returns no partial result): once cancel() was issued
\* while the subprocess was converting a document, the subprocess is being
\* terminated or has exited, and no success signal is ever emitted for that
\* document.
C21_CancelNoResult ==
    (sched.mode = "gui" /\ sched.cancelled /\ sched.in_progress # 0) =>
       /\ sched.proc \in {"terminating", "exited"}
       /\ ~SuccessSignalled(sched.in_progress)

(***************************************************************************)
(* Properties of the pool size.                                            *)
(***************************************************************************)
\* C22 (worker-pool size): the pool has max(1, min(page_count,
\* cpu_count // 2, 4)) workers, a number between 1 and 4 and at most
\* page_count; it is fixed before the first task starts, no step changes
\* it, and no more tasks than that run at a time.
C22_PoolSize ==
    /\ [](sched.mode = "parallel" =>
            /\ sched.actual_workers \in 1..4
            /\ sched.actual_workers <= sched.page_count
            /\ (sched.cpus >= 8 /\ sched.page_count >= 4) => sched.actual_workers = 4
            /\ (sched.cpus <= 3) => sched.actual_workers = 1
            /\ Cardinality(Busy) <= sched.actual_workers
            /\ (sched.started = {} => sched.collected = << >>))
    /\ [][sched'.actual_workers = sched.actual_workers]_vars

\* a document of more than four pages on a machine with more than eight
\* processors: four tasks run and a fifth waits
C22_Witness ==
    /\ sched.mode = "parallel" /\ sched.page_count > MAX_POOL
    /\ sched.cpus > 2 * MAX_POOL
    /\ Cardinality(Busy) = MAX_POOL
    /\ Cardinality(sched.started) < sched.page_count

(***************************************************************************)
(* Properties of repeated runs of the search.                              *)
(***************************************************************************)
\* q is the beginning of r
IsPrefix(q, r) == Len(q) <= Len(r) /\ \A k \in 1..Len(q) : q[k] = r[k]

C28_SameSearch ==
    sched.mode = "runs" =>
       /\ sched.seq.pc # "waiting" => IsPrefix(sched.seq.calls, worker[1].calls)
       /\ (sched.seq.pc = "done" /\ ~Failed(worker[1])) =>
             /\ sched.seq.calls = worker[1].calls
             /\ sched.seq.written = worker[1].written
             /\ sched.seq.ret.dpi = worker[1].ret.dpi
             /\ ~Failed(sched.seq)

\* the sequential search is over after the downward bisection and the
\* upward approximation, and in another run after the emergency loop
C28_Witness ==
    /\ sched.mode = "runs" /\ sched.seq.pc = "done" /\ ReturnedOk(sched.seq)
    /\ Len(sched.seq.written) = 1
    /\ \/ sched.seq.phase4_from > 0 /\ Len(sched.seq.calls) >= 4
       \/ sched.seq.phase5 /\ sched.seq.ret.dpi < sched.seq.min_dpi

(***************************************************************************)
(* Properties of the steps of the search.                                  *)
(***************************************************************************)
LastCall(w) == w.calls[Len(w.calls)]

\* the size measured at dpi was over the limit
MeasuredOver(w, dpi) == dpi \in DOMAIN w.seen /\ w.seen[dpi] > w.max_size_bytes

\* the size measured at dpi was within the limit
MeasuredFits(w, dpi) == dpi \in DOMAIN w.seen /\ w.seen[dpi] <= w.max_size_bytes

\* C24 (step 2, geometric back-off): step 2 renders only while the size
\* measured last, first of all the one at max_dpi, is over the limit; it
\* makes at most 3 render calls, each at a resolution >= min_dpi and <= the
\* resolution rendered just before, and it ends at the first size <= limit.
C24_Phase2 ==
    /\ [](\A p \in Pages :
            LET w == worker[p]
            IN  w.pc = "phase2" =>
                   /\ w.round < PHASE2_ROUNDS
                   /\ Len(w.calls) = w.round + 1
                   /\ MeasuredOver(w, w.max_dpi)
                   /\ w.actual_size > w.max_size_bytes
                   /\ LastCall(w) = w.current_dpi)
    /\ [][\A p \in Pages :
             LET w == worker[p]
                 v == worker'[p]
             IN  (w.pc = "phase2" /\ v # w) =>
                    /\ Len(v.calls) = Len(w.calls) + 1
                    /\ w.min_dpi <= LastCall(v) /\ LastCall(v) <= LastCall(w)
                    /\ ~Failed(v) =>
                          /\ v.round = w.round + 1
                          /\ (v.pc = "phase2") =
                                (MeasuredOver(v, LastCall(v)) /\ v.round < PHASE2_ROUNDS)
         ]_vars

\* three rounds of step 2 were made, the second below the first and the
\* third held at min_dpi
C24_Witness ==
    \E p \in Pages :
       LET w == worker[p]
       IN  /\ w.round = PHASE2_ROUNDS /\ Len(w.calls) >= 4
           /\ w.calls[3] < w.calls[2] /\ w.calls[2] < w.max_dpi
           /\ w.calls[4] = w.min_dpi
           /\ BackoffDpi(w.calls[3], w.max_size_bytes, w.seen[w.calls[3]], 3) < w.min_dpi

\* C25 (step 3, bisection): step 3 runs only with the result over the limit
\* and the resolution above min_dpi; in its loop the upper bound is a
\* resolution measured over the limit and the lower bound is min_dpi or a
\* resolution measured within the limit; it ends with the last accepted
\* midpoint (size <= limit) as the result or, if none was accepted, with
\* one render at min_dpi whose result is taken whatever its size.
C25_Phase3 ==
    /\ [](\A p \in Pages :
            LET w == worker[p]
            IN  /\ w.pc = "phase3" =>
                      /\ MeasuredOver(w, w.high_dpi)
                      /\ w.high_dpi > w.min_dpi
                      /\ w.low_dpi = w.min_dpi \/ MeasuredFits(w, w.low_dpi)
                      /\ w.low_dpi = w.min_dpi => w.actual_size > w.max_size_bytes
                      /\ w.low_dpi > w.min_dpi =>
                            w.result_bytes = [dpi |-> w.low_dpi, size |-> w.seen[w.low_dpi]]
                /\ w.pc = "phase3_min" =>
                      /\ w.low_dpi = w.min_dpi
                      /\ w.actual_size > w.max_size_bytes)
    /\ [][\A p \in Pages :
             LET w == worker[p]
                 v == worker'[p]
             IN  /\ (w.pc = "phase3" /\ v.pc \notin {"phase3", "phase3_min"}
                       /\ ~Failed(v)) =>
                       /\ v.result_bytes.dpi > w.min_dpi
                       /\ v.result_bytes.dpi \in {w.low_dpi, LastCall(v)}
                       /\ MeasuredFits(v, v.result_bytes.dpi)
                       /\ v.result_bytes.size = v.seen[v.result_bytes.dpi]
                 /\ (w.pc = "phase3_min" /\ v # w /\ ~Failed(v)) =>
                       /\ v.calls = Append(w.calls, w.min_dpi)
                       /\ v.result_bytes = [dpi |-> w.min_dpi, size |-> v.seen[w.min_dpi]]
         ]_vars

\* the bisection goes on on an arbitrary page after a midpoint was accepted
\* and a later one refused
C25_Witness ==
    \E p \in Pages :
       LET w == worker[p]
       IN  /\ w.pc = "phase3" /\ w.enc.kind = "free"
           /\ w.low_dpi > w.min_dpi
           /\ w.high_dpi < w.calls[w.round + 1]

\* the highest resolution step 4 may render
Phase4Ceiling(w) == Min2(UpwardDpi(w.phase4_from), w.max_dpi)

\* C26 (step 4, upward approximation): step 4 runs only from a result of
\* size <= 90% of the limit at a resolution below max_dpi; it renders only
\* above the resolution it started from and never above
\* min(trunc(1.15 * start), max_dpi), and the result it leaves is at a
\* resolution >= the start and has size <= limit.
C26_Phase4 ==
    /\ [](\A p \in Pages :
            LET w == worker[p]
            IN  /\ w.phase4_from > 0 =>
                      /\ w.phase4_from \in DOMAIN w.seen
                      /\ Conservative(w.seen[w.phase4_from], w.max_size_bytes)
                      /\ w.phase4_from < w.max_dpi
                /\ w.pc = "phase4" =>
                      /\ w.phase4_from > 0
                      /\ w.phase4_from <= w.low_dpi /\ w.low_dpi = w.best_dpi
                      /\ w.high_dpi <= Phase4Ceiling(w)
                      /\ w.best_bytes = [dpi |-> w.best_dpi, size |-> w.seen[w.best_dpi]]
                      /\ w.best_bytes.size <= w.max_size_bytes)
    /\ [][\A p \in Pages :
             LET w == worker[p]
                 v == worker'[p]
             IN  (w.pc = "phase4" /\ v # w) =>
                    /\ w.phase4_from < LastCall(v) /\ LastCall(v) < Phase4Ceiling(w)
                    /\ (v.pc # "phase4" /\ ~Failed(v)) =>
                          /\ v.result_bytes.dpi >= w.phase4_from
                          /\ v.result_bytes.dpi = v.current_dpi
                          /\ v.result_bytes.size = v.seen[v.current_dpi]
                          /\ v.result_bytes.size <= w.max_size_bytes
         ]_vars

\* step 4 goes on on an arbitrary page after it raised the resolution and
\* then lowered its upper bound below the ceiling
C26_Witness ==
    \E p \in Pages :
       LET w == worker[p]
       IN  /\ w.pc = "phase4" /\ w.enc.kind = "free"
           /\ w.low_dpi > w.phase4_from
           /\ w.high_dpi < Phase4Ceiling(w)

\* C27 (resolution bounds): no render call is above max_dpi; a render call
\* below min_dpi is made only in the emergency loop of step 5, after the
\* render at min_dpi was measured over the limit; the search returns a
\* resolution below min_dpi only then.
C27_ResolutionBounds ==
    \A p \in Pages :
       LET w == worker[p]
       IN  /\ \A k \in 1..Len(w.calls) :
                 /\ w.calls[k] <= w.max_dpi
                 /\ w.calls[k] < w.min_dpi =>
                       /\ w.phase5 /\ MeasuredOver(w, w.min_dpi)
                       /\ \E j \in 1..(k - 1) : w.calls[j] = w.min_dpi
           /\ ~w.phase5 => w.pc \notin {"phase5_emergency"}
           /\ (w.pc = "done" /\ w.ret.dpi < w.min_dpi /\ ~Failed(w)) =>
                 /\ w.phase5 /\ MeasuredOver(w, w.min_dpi)
                 /\ w.ret.dpi = w.emergency_dpi
                 /\ w.ret.dpi = LastCall(w)

\* the search of an arbitrary page returned a resolution below min_dpi
\* after the bisection of step 3 had rendered between min_dpi and max_dpi
C27_Witness ==
    \E p \in Pages :
       LET w == worker[p]
       IN  /\ ReturnedOk(w) /\ w.ret.dpi < w.min_dpi /\ w.enc.kind = "free"
           /\ Len(w.calls) >= 8
           /\ \E k \in 1..Len(w.calls) :
                 w.min_dpi < w.calls[k] /\ w.calls[k] < w.calls[w.round + 1]

(***************************************************************************)
(* Properties of the messages of the conversion subprocess.                *)
(***************************************************************************)
\* the page_progress messages the subprocess has sent for the document of
\* the parallel run
ProgressSent == PageProgress(sched.events, 1, 0, sched.page_count)

\* C29 (page-progress counting): in every page_progress message of a
\* parallel run current is at most total, the page count, and at most the
\* number of pages that have reached a terminal outcome.
C29_PageProgress ==
    (sched.mode = "parallel" /\ sched.callback) =>
       /\ \A k \in 1..Len(ProgressSent) :
             /\ ProgressSent[k].a = k
             /\ ProgressSent[k].a <= ProgressSent[k].b
       /\ Len(ProgressSent) <= Len(sched.collected)

\* every file the batch has reported as failed
FailedSignalled ==
    {k \in 1..Len(sched.signals) :
        sched.signals[k].name = "file_completed" /\ sched.signals[k].a = 0}

AllCompleted == {k \in 1..Len(sched.signals) : sched.signals[k].name = "all_completed"}

\* the batch is over: start() returned without a subprocess, or the
\* subprocess has exited and every line it wrote was read
BatchOver ==
    /\ sched.mode = "gui"
    /\ sched.pc = "idle" \/ (sched.proc = "exited" /\ sched.pipe = << >>)

\* C30 (batch completion is signalled): all_completed is never emitted
\* twice; when the batch is over and cancel() was not called it has been
\* emitted once, with total = success + failed and with every file reported
\* by file_completed(False) counted in failed.
C30_BatchCompletion ==
    sched.mode = "gui" =>
       /\ Cardinality(AllCompleted) <= 1
       /\ (BatchOver /\ ~sched.cancelled) =>
             /\ Cardinality(AllCompleted) = 1
             /\ \A k \in AllCompleted :
                   /\ sched.signals[k].a = sched.signals[k].b + sched.signals[k].c
                   /\ sched.signals[k].c >= Cardinality(FailedSignalled)

====
